---- MODULE Spec2Model ----
(***************************************************************************)
(* Model of the preference-driven scoring and interactive session-learning *)
(* core of picky: the Session Manager of recommendation_engine.py on top   *)
(* of the session / feedback tables of database.py.                        *)
(*                                                                         *)
(* Scores and preference values are integers in thousandths (0.5 = 500);   *)
(* ratings are integers in tenths (4.5 = 45).  Timestamps are the ticks of *)
(* a logical clock.  An optional argument (None or a value) is a sequence  *)
(* of length 0 or 1.  A dict is a function whose DOMAIN is its key set.    *)
(***************************************************************************)
EXTENDS Integers, Sequences, FiniteSets, TLC

\* ------------------------------------------------------------------ bounds
MaxSessions == 2      \* sessions that start_recommendation_session may create
MaxOps      == 3      \* operations in one run (the clock stops there)
MaxListLen  == 2      \* longest persisted liked / disliked list
MaxFaults   == 1      \* Store calls that raise in one run

\* ------------------------------------------------------- generic helpers
None == << >>
Some(v) == << v >>

\* Python truthiness of an optional list: None and [] are both falsy
Truthy(opt) == opt # None /\ opt[1] # << >>

Range(s) == { s[i] : i \in DOMAIN s }

Min(a, b) == IF a <= b THEN a ELSE b
Max(a, b) == IF a >= b THEN a ELSE b

\* s[:limit] for limit >= 0
Take(s, n) == SubSeq(s, 1, Min(n, Len(s)))

\* F applied to the value of v, which is computed once
With(v, F(_)) == CHOOSE out \in { F(x) : x \in { v } } : TRUE

\* [x.id for x in recs]
MapIds(recs) == With(recs, LAMBDA rs : [ i \in DOMAIN rs |-> rs[i].id ])

\* round(a / b) for b > 0, ties to even as Python's round
RoundDiv(a, b) ==
    LET q == a \div b
        r == a % b
    IN  IF 2 * r < b THEN q
        ELSE IF 2 * r > b THEN q + 1
        ELSE IF q % 2 = 0 THEN q ELSE q + 1

\* str.lower() on the vocabulary of the model
Lower(s) ==
    CASE s = "Thai"    -> "thai"
      [] s = "Sushi"   -> "sushi"
      [] s = "Italian" -> "italian"
      [] s = "Asian"   -> "asian"
      [] s = "Casual"  -> "casual"
      [] s = "Upscale" -> "upscale"
      [] s = "Austin"  -> "austin"
      [] s = "Boston"  -> "boston"
      [] s = "Pad Thai" -> "pad thai"
      [] OTHER         -> s

\* the pairs (a, b) of different lowercase words of the vocabulary with a in b
ProperSubstrings == { << "curry", "green curry" >>, << "thai", "pad thai" >> }

\* a in b for lowercase strings of the vocabulary
StrIn(a, b) == a = b \/ << a, b >> \in ProperSubstrings

\* ------------------------------------------------------------- the data
\* models.Restaurant: one row of the restaurants table.  lat/lng are km
\* offsets on a local grid; features is the set of keys with a truthy value.
Restaurant(id, cuisines, vibes, lat, lng, city, place, urating, grating, price, feats, menu, revisit) ==
    [ id |-> id, cuisine_type |-> cuisines, vibes |-> vibes,
      lat |-> lat, lng |-> lng, city |-> city, state |-> "",
      google_place_id |-> place, user_rating |-> urating,
      google_rating |-> grating, price_level |-> price,
      features |-> feats, menu_items |-> menu, revisit_preference |-> revisit ]

\* GooglePlacesService.convert_places_to_restaurants: the id of a live
\* restaurant is "gp_" followed by its place id
GpId(place) ==
    CASE place = "a" -> "gp_a"
      [] place = "s" -> "gp_s"

\* str.startswith('gp_') on the ids of the model
StartsWithGp(id) == id \in { "gp_a", "gp_s" }

convert_places_to_restaurants(places) ==
    [ i \in DOMAIN places |->
        Restaurant(GpId(places[i].place_id), places[i].cuisine_type,
                   places[i].vibes, Some(places[i].lat), Some(places[i].lng),
                   places[i].city, Some(places[i].place_id), None,
                   places[i].rating, None, {}, << >>, None) ]

\* the places the Live Candidate Supplier knows
PlaceA == [ place_id |-> "a", cuisine_type |-> << "Sushi" >>,
            vibes |-> << "Casual" >>, lat |-> 2, lng |-> 1, city |-> "Austin",
            rating |-> Some(47) ]
PlaceS == [ place_id |-> "s", cuisine_type |-> << "Italian" >>,
            vibes |-> << "Casual" >>, lat |-> 90, lng |-> 1, city |-> "Boston",
            rating |-> Some(41) ]

\* what one live search can return
\* (nothing; a stored place and a new one; one new place on two result pages)
LiveResults == { << >>, << PlaceS, PlaceA >>, << PlaceA, PlaceA >> }

\* the restaurants table at start: two unrated CSV rows of Austin, two rated
\* rows, and one row added earlier by add_restaurant_by_name (a "gp_" id)
InitialRestaurants ==
    << Restaurant("r1", << "Thai" >>, << "Casual" >>, Some(1), Some(1),
                  "Austin", None, None, Some(45), Some(2), { "website" },
                  << "pad thai" >>, None),
       Restaurant("r2", << "Italian" >>, << "Upscale" >>, Some(1), Some(2),
                  "Austin", None, None, Some(40), Some(3), {}, << >>, None),
       Restaurant("r3", << "Thai" >>, << "Casual" >>, Some(2), Some(2),
                  "Austin", None, Some(50), None, Some(2), {},
                  << "pad thai", "pad thai" >>, Some("Yes")),
       Restaurant("r4", << "Italian" >>, << "Upscale" >>, Some(3), Some(1),
                  "Austin", None, Some(20), None, Some(3), {}, << "lasagna" >>,
                  None),
       Restaurant("gp_s", << "Italian" >>, << "Casual" >>, Some(90), Some(1),
                  "Boston", Some("s"), None, Some(41), None, {}, << >>, None) >>

Users == { "u1", "u2" }

\* session locations (a dict: an absent key is None): a city, a point
\* (radius_km defaults to 25), and a dict with neither form
LocCity  == [ lat |-> None, lng |-> None, city |-> Some("Austin") ]
LocPoint == [ lat |-> Some(1), lng |-> Some(1), city |-> None ]
LocNone  == [ lat |-> None, lng |-> None, city |-> None ]
Locations == { LocCity, LocPoint, LocNone }
DefaultRadiusKm == 25

SessionIds == 1 .. MaxSessions

\* the calls of start_recommendation_session that are tried
StartArgs == { << "u1", LocCity >>, << "u2", LocPoint >>, << "u1", LocNone >> }

\* the calls of collect_session_feedback that are tried: liked and disliked
\* ids (candidates, a repeated id, the rated "r3", an id the Store lacks) and
\* the optional cuisine and vibe preference lists
Feedback(liked, disliked, cuisine, vibe) ==
    [ liked |-> liked, disliked |-> disliked, cuisine |-> cuisine, vibe |-> vibe ]

FeedbackArgs ==
    { Feedback(<< >>, << >>, None, None),
      Feedback(<< "r3", "r3" >>, << >>, Some(<< "Asian" >>), None),
      Feedback(<< "zz" >>, << "gp_a" >>, Some(<< "Thai" >>), Some(<< >>)),
      Feedback(<< >>, << "r1" >>, Some(<< >>), Some(<< "Casual" >>)),
      Feedback(<< "r3" >>, << "r1" >>, None, Some(<< "Upscale" >>)) }

Limits == { 1, 2 }

\* ------------------------------------------------ sequences and maps
\* number of occurrences of x in s
RECURSIVE Count(_, _)
Count(s, x) == IF s = << >> THEN 0
               ELSE (IF Head(s) = x THEN 1 ELSE 0) + Count(Tail(s), x)

\* the concatenation of a sequence of sequences
RECURSIVE Flatten(_)
Flatten(ss) == IF ss = << >> THEN << >> ELSE Head(ss) \o Flatten(Tail(ss))

\* the elements of s in order of first occurrence
RECURSIVE Distinct(_)
Distinct(s) ==
    IF s = << >> THEN << >>
    ELSE LET d == Distinct(SubSeq(s, 1, Len(s) - 1))
         IN  IF s[Len(s)] \in Range(d) THEN d ELSE Append(d, s[Len(s)])

\* list.sort(key=score, reverse=True): stable, so records of equal score
\* keep their order.  place[i] is the position record i is moved to.
SortByScoreDesc(recs) ==
    With(recs, LAMBDA rs :
        With([ i \in DOMAIN rs |->
                 1 + Cardinality({ j \in DOMAIN rs :
                         \/ rs[j].score > rs[i].score
                         \/ rs[j].score = rs[i].score /\ j < i }) ],
             LAMBDA place :
                 [ k \in DOMAIN rs |-> rs[CHOOSE i \in DOMAIN rs : place[i] = k] ]))

\* a dict as a set of << key, value >> pairs; dict.get(key, default)
Keys(map) == { kv[1] : kv \in map }
Get(map, key, default) ==
    IF key \in Keys(map) THEN (CHOOSE kv \in map : kv[1] = key)[2] ELSE default

\* a price level as a dict key: an int in memory, a string once the dict
\* went through json.dumps / json.loads
IntKey(level) == << "int", level >>
JsonKey(key) == << "str", key[2] >>

\* ------------------------------------------- Preference Model Builder
RatedRestaurants(rs) == SelectSeq(rs, LAMBDA r : r.user_rating # None)

RECURSIVE SumRatings(_)
SumRatings(rs) == IF rs = << >> THEN 0
                  ELSE Head(rs).user_rating[1] + SumRatings(Tail(rs))

\* the deviation from the mean taken whole instead of halved
PreferenceScore_undivided(ratings, rated, n) ==
    RoundDiv(1000 * (SumRatings(ratings) * Len(rated) - SumRatings(rated) * Len(ratings))
                  * Min(Len(ratings), n),
             10 * Len(ratings) * Len(rated) * n)

\* ((avg_rating - overall_avg) / 2.0) * min(count / n, 1.0), rounded to 3
\* decimals: ratings is the list of ratings of one attribute value
PreferenceScore(ratings, rated, n) ==
    LET sum   == SumRatings(ratings)
        count == Len(ratings)
        all   == SumRatings(rated)
        total == Len(rated)
    IN  RoundDiv(1000 * (sum * total - all * count) * Min(count, n),
                 20 * count * total * n)

CuisineConfidence == 5
PriceConfidence   == 3
VibeConfidence    == 3

\* one entry of rs per occurrence of tag in the field: the ratings list of
\* the defaultdict(list)
RECURSIVE RatingsOfTag(_, _, _)
RatingsOfTag(rs, field, tag) ==
    IF rs = << >> THEN << >>
    ELSE [ i \in 1 .. Count(Head(rs)[field], tag) |-> Head(rs) ]
         \o RatingsOfTag(Tail(rs), field, tag)

AllTags(rs, field) == UNION { Range(rs[i][field]) : i \in DOMAIN rs }

_analyze_cuisine_preferences(rated) ==
    { << c, PreferenceScore(RatingsOfTag(rated, "cuisine_type", c), rated,
                            CuisineConfidence) >> :
      c \in AllTags(rated, "cuisine_type") }

_analyze_price_preferences(rated) ==
    LET priced == SelectSeq(rated, LAMBDA r : r.price_level # None
                                              /\ r.price_level[1] # 0)
    IN  { << IntKey(l),
             PreferenceScore(SelectSeq(priced, LAMBDA r : r.price_level[1] = l),
                             rated, PriceConfidence) >> :
          l \in { priced[i].price_level[1] : i \in DOMAIN priced } }

_analyze_vibe_preferences(rated) ==
    { << v, PreferenceScore(RatingsOfTag(rated, "vibes", v), rated,
                            VibeConfidence) >> :
      v \in AllTags(rated, "vibes") }

HighRating == 40

\* menu items of the restaurants rated 4+ that occur more than once, most
\* frequent first (Counter.most_common: ties in order of first occurrence)
_extract_favorite_dishes(rated) ==
    LET high   == SelectSeq(rated, LAMBDA r : r.user_rating[1] >= HighRating)
        dishes == Flatten([ i \in DOMAIN high |-> high[i].menu_items ])
        counted == [ i \in DOMAIN Distinct(dishes) |->
                       [ id |-> Distinct(dishes)[i],
                         score |-> Count(dishes, Distinct(dishes)[i]) ] ]
    IN  MapIds(SelectSeq(SortByScoreDesc(counted), LAMBDA d : d.score > 1))

UserProfile(user_id) ==
    [ user_id |-> user_id, cuisine_preferences |-> {}, price_preferences |-> {},
      vibe_preferences |-> {}, favorite_dishes |-> << >> ]

\* PreferenceAnalyzer.analyze_user_preferences
analyze_user_preferences(rs, user_id) ==
    LET rated == RatedRestaurants(rs)
    IN  IF rated = << >> THEN UserProfile(user_id)
        ELSE [ user_id |-> user_id,
               cuisine_preferences |-> _analyze_cuisine_preferences(rated),
               price_preferences |-> _analyze_price_preferences(rated),
               vibe_preferences |-> _analyze_vibe_preferences(rated),
               favorite_dishes |-> _extract_favorite_dishes(rated) ]

\* DatabaseManager.save_user_profile / get_user_profile: the maps are stored
\* as JSON text, which turns the int keys of price_preferences into strings
ProfileRow(profile) ==
    [ profile EXCEPT !.price_preferences = { << JsonKey(kv[1]), kv[2] >> : kv \in @ } ]

save_user_profile(table, profile) ==
    [ table EXCEPT ![profile.user_id] = Some(ProfileRow(profile)) ]

get_user_profile(table, user_id) == table[user_id]

\* ---------------------------------------------------- Scoring Engine
MaxOf(S) == CHOOSE x \in S : \A y \in S : y <= x

\* a cuisine score that gives an unknown cuisine 0.5 instead of the neutral 0
_calculate_cuisine_score_default(restaurant, profile) ==
    IF restaurant.cuisine_type = << >> THEN 0
    ELSE MaxOf({ Get(profile.cuisine_preferences, c, 500) :
                 c \in Range(restaurant.cuisine_type) })

_calculate_cuisine_score(restaurant, profile) ==
    IF restaurant.cuisine_type = << >> THEN 0
    ELSE MaxOf({ Get(profile.cuisine_preferences, c, 0) :
                 c \in Range(restaurant.cuisine_type) })

_calculate_price_score(restaurant, profile) ==
    IF restaurant.price_level = None \/ restaurant.price_level = Some(0)
       \/ profile.price_preferences = {}
    THEN 0
    ELSE Get(profile.price_preferences, IntKey(restaurant.price_level[1]), 0)

_calculate_vibe_score(restaurant, profile) ==
    IF restaurant.vibes = << >> THEN 0
    ELSE MaxOf({ Get(profile.vibe_preferences, v, 0) : v \in Range(restaurant.vibes) })

\* (google_rating - 3) / 2 * 0.8, plus 0.1 for a website and 0.1 for a phone
_calculate_quality_score(restaurant) ==
    LET rating == IF restaurant.google_rating = None
                     \/ restaurant.google_rating = Some(0)
                  THEN 0 ELSE (restaurant.google_rating[1] - 30) * 40
        website == IF "website" \in restaurant.features THEN 100 ELSE 0
        phone   == IF "phone" \in restaurant.features THEN 100 ELSE 0
    IN  Min(rating + website + phone, 1000)

\* +1.0 for a revisit mark, +0.3 for every favorite dish found in the menu
_calculate_special_score(restaurant, profile) ==
    LET revisit == IF restaurant.revisit_preference
                        \in { Some("Y"), Some("Yes"), Some("yes") }
                   THEN 1000 ELSE 0
        matching == { i \in DOMAIN profile.favorite_dishes :
                        \E m \in Range(restaurant.menu_items) :
                            StrIn(Lower(profile.favorite_dishes[i]), Lower(m)) }
    IN  Min(revisit + 300 * Cardinality(matching), 1000)

_calculate_recommendation_score(restaurant, profile) ==
    RoundDiv(  400 * _calculate_cuisine_score(restaurant, profile)
             + 200 * _calculate_price_score(restaurant, profile)
             + 200 * _calculate_vibe_score(restaurant, profile)
             + 150 * _calculate_quality_score(restaurant)
             +  50 * _calculate_special_score(restaurant, profile), 1000)

\* the scoring loop of get_recommendations / get_recommendations_by_city
Score(rs, profile) ==
    With(<< rs, profile >>, LAMBDA x :
        [ i \in DOMAIN x[1] |->
            [ restaurant |-> x[1][i], id |-> x[1][i].id,
              score |-> _calculate_recommendation_score(x[1][i], x[2]) ] ])

\* -------------------------------------------------- candidate pools
PoolLimit == 200

\* geopy's geodesic distance in km, on the local grid of the model
Distance(lat1, lng1, lat2, lng2) ==
    LET dlat == IF lat1 >= lat2 THEN lat1 - lat2 ELSE lat2 - lat1
        dlng == IF lng1 >= lng2 THEN lng1 - lng2 ELSE lng2 - lng1
    IN  dlat + dlng

\* DatabaseManager.get_restaurants_by_location
get_restaurants_by_location(rs, lat, lng, radius_km) ==
    SelectSeq(rs, LAMBDA r :
        /\ r.lat # None /\ r.lng # None
        /\ r.lat[1] # 0 /\ r.lng[1] # 0
        /\ Distance(lat, lng, r.lat[1], r.lng[1]) <= radius_km)

\* DatabaseManager.get_restaurant_by_id
get_restaurant_by_id(rs, restaurant_id) ==
    IF \E i \in DOMAIN rs : rs[i].id = restaurant_id
    THEN Some(rs[CHOOSE i \in DOMAIN rs : rs[i].id = restaurant_id])
    ELSE None

\* the live restaurants whose place id no stored restaurant has
NewRestaurants(live, rs) ==
    LET existing_place_ids == { rs[i].google_place_id[1] :
                                i \in { j \in DOMAIN rs : rs[j].google_place_id # None } }
    IN  SelectSeq(live, LAMBDA r : r.google_place_id[1] \notin existing_place_ids)

\* RecommendationEngine._get_live_restaurant_recommendations: answer is what
\* the Supplier does when called, [raised, places]; the except clause turns
\* an exception into []
_get_live_restaurant_recommendations(answer, rs) ==
    IF answer.raised \/ answer.places = << >> THEN << >>
    ELSE NewRestaurants(convert_places_to_restaurants(answer.places), rs)

\* a live fetch that keeps what the queries delivered before one raised
_get_live_city_restaurants_partial(answer, rs) ==
    IF answer.places = << >> THEN << >>
    ELSE NewRestaurants(convert_places_to_restaurants(Distinct(answer.places)), rs)

\* RecommendationEngine._get_live_city_restaurants: the places of all text
\* queries, deduplicated by place id
_get_live_city_restaurants(answer, rs) ==
    IF answer.raised \/ answer.places = << >> THEN << >>
    ELSE NewRestaurants(convert_places_to_restaurants(Distinct(answer.places)), rs)

\* RecommendationEngine.get_recommendations with exclude_visited = True:
\* the ranked pool, the user_profiles table it leaves, and whether the
\* Supplier was called
get_recommendations(rs, profiles, service, user_id, lat, lng, radius_km, limit, include_live_search, answer) ==
    LET stored  == get_user_profile(profiles, user_id)
        profile == IF stored = None THEN analyze_user_preferences(rs, user_id)
                   ELSE stored[1]
        saved   == IF stored = None THEN save_user_profile(profiles, profile)
                   ELSE profiles
        nearby  == get_restaurants_by_location(rs, lat, lng, radius_km)
        called  == include_live_search /\ service
        live    == IF called THEN _get_live_restaurant_recommendations(answer, rs)
                   ELSE << >>
        visited == { rs[i].id : i \in { j \in DOMAIN rs : rs[j].user_rating # None } }
        pool    == SelectSeq(nearby \o live, LAMBDA r : r.id \notin visited)
    IN  [ recommendations |-> Take(SortByScoreDesc(Score(pool, profile)), limit),
          profiles |-> saved, called |-> called ]

\* a city pool that keeps the restaurants the user has rated
get_recommendations_by_city_all(rs, profiles, service, user_id, city, limit, include_live_search, answer) ==
    LET city_restaurants == SelectSeq(rs, LAMBDA r : Lower(r.city) = Lower(city))
        called  == include_live_search /\ service
        live    == IF called THEN _get_live_city_restaurants(answer, rs) ELSE << >>
        stored  == get_user_profile(profiles, user_id)
        profile == IF stored = None THEN analyze_user_preferences(rs, user_id)
                   ELSE stored[1]
    IN  [ recommendations |->
              Take(SortByScoreDesc(Score(city_restaurants \o live, profile)), limit),
          profiles |-> profiles, called |-> called ]

\* RecommendationEngine.get_recommendations_by_city (the session location
\* carries no state, so every state matches)
get_recommendations_by_city(rs, profiles, service, user_id, city, limit, include_live_search, answer) ==
    LET city_restaurants == SelectSeq(rs, LAMBDA r :
                                Lower(r.city) = Lower(city) /\ r.user_rating = None)
        called  == include_live_search /\ service
        live    == IF called THEN _get_live_city_restaurants(answer, rs) ELSE << >>
        stored  == get_user_profile(profiles, user_id)
        profile == IF stored = None THEN analyze_user_preferences(rs, user_id)
                   ELSE stored[1]
    IN  [ recommendations |->
              Take(SortByScoreDesc(Score(city_restaurants \o live, profile)), limit),
          profiles |-> profiles, called |-> called ]

\* ---------------------------------------------------- session learning
cuisine_categories ==
    { << "asian", { "vietnamese", "chinese", "thai", "japanese", "korean",
                    "indian", "sushi", "ramen", "pho" } >>,
      << "european", { "italian", "french", "mediterranean", "greek", "spanish" } >>,
      << "american", { "american", "bbq", "burger", "steakhouse", "diner" } >>,
      << "latin", { "mexican", "latin", "spanish", "cuban", "brazilian" } >>,
      << "middle eastern", { "middle eastern", "turkish", "lebanese", "persian" } >>,
      << "casual", { "cafe", "fast food", "takeout", "pizza", "bakery" } >> }

\* the boost the loop body gives for one (cuisine tag, preference) pair: 0.5
\* for a direct match, 0.4 for a match through the category table, else none
PairBoost(cuisine, pref) ==
    LET pref_lower    == Lower(pref)
        cuisine_lower == Lower(cuisine)
    IN  IF StrIn(pref_lower, cuisine_lower) \/ StrIn(cuisine_lower, pref_lower)
        THEN 500
        ELSE IF /\ pref_lower \in Keys(cuisine_categories)
                /\ \E cat \in Get(cuisine_categories, pref_lower, {}) :
                       StrIn(cat, cuisine_lower)
        THEN 400
        ELSE IF /\ cuisine_lower \in Keys(cuisine_categories)
                /\ \E cat \in Get(cuisine_categories, cuisine_lower, {}) :
                       StrIn(cat, pref_lower)
        THEN 400
        ELSE 0

\* the nested loops of lines 747-773: the first pair that matches, cuisine
\* tags outermost, decides the boost and ends both loops
RECURSIVE FirstPairBoost(_, _)
FirstPairBoost(cuisine, prefs) ==
    IF prefs = << >> THEN 0
    ELSE IF PairBoost(cuisine, Head(prefs)) # 0 THEN PairBoost(cuisine, Head(prefs))
    ELSE FirstPairBoost(cuisine, Tail(prefs))

RECURSIVE CuisineBoost(_, _)
CuisineBoost(cuisine_type, prefs) ==
    IF cuisine_type = << >> THEN 0
    ELSE IF FirstPairBoost(Head(cuisine_type), prefs) # 0
    THEN FirstPairBoost(Head(cuisine_type), prefs)
    ELSE CuisineBoost(Tail(cuisine_type), prefs)

VibeBoost(vibes, prefs) ==
    IF \E v \in Range(vibes), pref \in Range(prefs) :
           StrIn(Lower(pref), Lower(v)) \/ StrIn(Lower(v), Lower(pref))
    THEN 300 ELSE 0

PreferenceBoost(restaurant, session_prefs) ==
    (IF Truthy(session_prefs.preferred_cuisines)
     THEN CuisineBoost(restaurant.cuisine_type, session_prefs.preferred_cuisines[1])
     ELSE 0)
    + (IF Truthy(session_prefs.preferred_vibes)
       THEN VibeBoost(restaurant.vibes, session_prefs.preferred_vibes[1])
       ELSE 0)

\* a like boost that counts every liked restaurant once
LikeBoost_dedup(restaurant, liked_ids, rs) ==
    LET liked == { i \in DOMAIN rs : rs[i].id \in Range(liked_ids) }
    IN  200 * Cardinality({ i \in liked : Range(restaurant.cuisine_type)
                                             \cap Range(rs[i].cuisine_type) # {} })
        + 100 * Cardinality({ i \in liked : Range(restaurant.vibes)
                                               \cap Range(rs[i].vibes) # {} })

\* lines 800-812: every entry of the liked list that the Store resolves adds
\* 0.2 for a shared cuisine tag and 0.1 for a shared vibe tag
RECURSIVE LikeBoost(_, _, _)
LikeBoost(restaurant, liked_ids, rs) ==
    IF liked_ids = << >> THEN 0
    ELSE LET liked == get_restaurant_by_id(rs, Head(liked_ids))
             here  == IF liked = None THEN 0
                      ELSE (IF Range(restaurant.cuisine_type)
                                 \cap Range(liked[1].cuisine_type) # {}
                            THEN 200 ELSE 0)
                         + (IF Range(restaurant.vibes) \cap Range(liked[1].vibes) # {}
                            THEN 100 ELSE 0)
         IN  here + LikeBoost(restaurant, Tail(liked_ids), rs)

\* an adjusted score that is not clipped
AdjustedScore_unclipped(rec, session, rs) ==
    rec.score + PreferenceBoost(rec.restaurant, session.session_preferences)
              + LikeBoost(rec.restaurant, session.liked_restaurant_ids, rs)

AdjustedScore(rec, session, rs) ==
    Min(rec.score + PreferenceBoost(rec.restaurant, session.session_preferences)
                  + LikeBoost(rec.restaurant, session.liked_restaurant_ids, rs),
        1000)

\* filters that forget one of the two lists
Kept_shown_only(rec, session) ==
    rec.id \notin Range(session.shown_restaurant_ids)

Kept_disliked_only(rec, session) ==
    rec.id \notin Range(session.disliked_restaurant_ids)

\* a candidate survives unless its id was shown or disliked
Kept(rec, session) ==
    /\ rec.id \notin Range(session.shown_restaurant_ids)
    /\ rec.id \notin Range(session.disliked_restaurant_ids)

\* RecommendationEngine._apply_session_learning
_apply_session_learning(recommendations, session, rs) ==
    With(SelectSeq(recommendations, LAMBDA rec : Kept(rec, session)), LAMBDA kept :
        SortByScoreDesc([ i \in DOMAIN kept |->
            [ kept[i] EXCEPT !.score = AdjustedScore(kept[i], session, rs) ] ]))

\* what the caller sees of a list of recommendations
Shown(recs) == [ i \in DOMAIN recs |-> [ id |-> recs[i].id, score |-> recs[i].score ] ]

\* ------------------------------------------------------------ the state
VARIABLES
    restaurants,        \* restaurants table, in row order
    user_profiles,      \* user_profiles table: user_id -> None or Some(profile)
    recommendation_sessions,  \* sessions table: session_id -> None or Some(row)
    session_feedback,   \* session_feedback table, in insertion order
    google_service,     \* TRUE iff the engine was built with a Supplier
    now,                \* logical clock: one tick per operation
    last,               \* the last call: its arguments and what it returned
    everReturned,       \* session_id -> ids returned by rounds before the last call
    everDisliked,       \* session_id -> ids disliked in successful feedback calls
    cachePopulated,     \* session_id -> a round recorded a live id in its cache
    liveCalls,          \* session_id -> rounds that invoked the Supplier
    faults,             \* Store calls that raised so far
    eval                \* a single function under evaluation: input and result

vars == << restaurants, user_profiles, recommendation_sessions,
           session_feedback, google_service, now, last, everReturned,
           everDisliked, cachePopulated, liveCalls, faults, eval >>

Store == << restaurants, user_profiles, recommendation_sessions,
            session_feedback >>

\* models.RecommendationSession as constructed with the defaults of its
\* dataclass: empty lists, empty preferences, created_at = last_activity = now
RecommendationSession(session_id, user_id, location, t) ==
    [ session_id |-> session_id, user_id |-> user_id, location |-> location,
      shown_restaurant_ids |-> << >>, liked_restaurant_ids |-> << >>,
      disliked_restaurant_ids |-> << >>,
      session_preferences |-> [ preferred_cuisines |-> None,
                                preferred_vibes |-> None ],
      cached_live_restaurants |-> << >>,
      created_at |-> t, last_activity |-> t ]

\* DatabaseManager.save_recommendation_session: INSERT OR REPLACE of the ten
\* columns of the row; the table has no column for cached_live_restaurants
SessionRow(session) ==
    [ session_id |-> session.session_id, user_id |-> session.user_id,
      location_data |-> session.location,
      shown_restaurant_ids |-> session.shown_restaurant_ids,
      liked_restaurant_ids |-> session.liked_restaurant_ids,
      disliked_restaurant_ids |-> session.disliked_restaurant_ids,
      session_preferences |-> session.session_preferences,
      created_at |-> session.created_at,
      last_activity |-> session.last_activity ]

save_recommendation_session(table, session) ==
    [ table EXCEPT ![session.session_id] = Some(SessionRow(session)) ]

\* DatabaseManager.get_recommendation_session: None, or the session built
\* from the row; cached_live_restaurants takes the dataclass default
SessionOfRow(row) ==
    [ session_id |-> row.session_id, user_id |-> row.user_id,
      location |-> row.location_data,
      shown_restaurant_ids |-> row.shown_restaurant_ids,
      liked_restaurant_ids |-> row.liked_restaurant_ids,
      disliked_restaurant_ids |-> row.disliked_restaurant_ids,
      session_preferences |-> row.session_preferences,
      cached_live_restaurants |-> << >>,
      created_at |-> row.created_at,
      last_activity |-> row.last_activity ]

\* get-or-create instead of get: an unknown id loads as a fresh session
get_recommendation_session_or_create(table, session_id) ==
    IF table[session_id] = None
    THEN Some(RecommendationSession(session_id, "u1", LocCity, 0))
    ELSE Some(SessionOfRow(table[session_id][1]))

get_recommendation_session(table, session_id) ==
    IF table[session_id] = None THEN None
    ELSE Some(SessionOfRow(table[session_id][1]))

\* DatabaseManager.save_session_feedback: one more row in session_feedback
save_session_feedback(table, session_id, restaurant_id, feedback_type) ==
    Append(table, [ session_id |-> session_id, restaurant_id |-> restaurant_id,
                    feedback_type |-> feedback_type ])

\* an id generator that can return an id in use
uuid4_constant(table) == 1

\* uuid.uuid4(): an id no session has yet
uuid4(table) == CHOOSE id \in SessionIds :
                   /\ table[id] = None
                   /\ \A j \in SessionIds : table[j] = None => id <= j

\* the call record of an operation
Call(op, session_id, args, ok, raised, result, live) ==
    [ op |-> op, session_id |-> session_id, args |-> args, ok |-> ok,
      raised |-> raised, result |-> result, live |-> live ]

NoArgs == [ user_id |-> "", location |-> LocNone, liked |-> << >>,
            disliked |-> << >>, cuisine |-> None, vibe |-> None,
            limit |-> 0, fault |-> "none" ]

NoLive == [ called |-> FALSE, raised |-> FALSE, cached |-> << >> ]

\* no function is under evaluation while the session operations run
NoEval == [ fn |-> "none", done |-> FALSE ]

InitStore ==
    /\ restaurants = InitialRestaurants
    /\ user_profiles = [ u \in Users |-> None ]
    /\ recommendation_sessions = [ id \in SessionIds |-> None ]
    /\ session_feedback = << >>
    /\ google_service \in BOOLEAN
    /\ now = 0
    /\ last = Call("init", 0, NoArgs, TRUE, FALSE, << >>, NoLive)
    /\ everReturned = [ id \in SessionIds |-> {} ]
    /\ everDisliked = [ id \in SessionIds |-> {} ]
    /\ cachePopulated = [ id \in SessionIds |-> FALSE ]
    /\ liveCalls = [ id \in SessionIds |-> 0 ]
    /\ faults = 0

Init == InitStore /\ eval = NoEval

\* ids returned by the last call, if it was a round
LastIds == IF last.op = "round" THEN Range(MapIds(last.result)) ELSE {}

\* what every operation does to the clock and to the records of the run:
\* the ids the previous call returned become ids of an earlier round
Step(fault) ==
    /\ now < MaxOps
    /\ now' = now + 1
    /\ fault # "none" => faults < MaxFaults
    /\ faults' = IF fault = "none" THEN faults ELSE faults + 1
    /\ eval' = eval
    /\ everReturned' = IF last.op = "round" /\ last.ok
                       THEN [ everReturned EXCEPT ![last.session_id] = @ \cup LastIds ]
                       ELSE everReturned

\* a call that failed: of its arguments only the fault is kept, unless the
\* call had committed something before it failed
Failed(op, session_id, fault, raised, live) ==
    Call(op, session_id, [ NoArgs EXCEPT !.fault = fault ], FALSE, raised, << >>, live)

\* RecommendationEngine.start_recommendation_session; fault = "save" is the
\* Store raising in save_recommendation_session, which nothing here catches
start_recommendation_session(user_id, location, fault) ==
    /\ Step(fault)
    /\ \E id \in SessionIds : recommendation_sessions[id] = None
    /\ LET session_id == uuid4(recommendation_sessions)
           session == RecommendationSession(session_id, user_id, location, now + 1)
           args == [ NoArgs EXCEPT !.user_id = user_id, !.location = location ]
       IN  IF fault = "save"
           THEN /\ last' = Failed("start", 0, fault, TRUE, NoLive)
                /\ UNCHANGED recommendation_sessions
           ELSE /\ recommendation_sessions' =
                     save_recommendation_session(recommendation_sessions, session)
                /\ last' = Call("start", session_id, args, TRUE, FALSE, << >>, NoLive)
    /\ UNCHANGED << restaurants, user_profiles, session_feedback, google_service,
                    everDisliked, cachePopulated, liveCalls >>

StartSession ==
    \E a \in StartArgs, fault \in { "none", "save" } :
        start_recommendation_session(a[1], a[2], fault)

\* the Store call of collect_session_feedback that raises: the session read,
\* the session save, or the k-th save_session_feedback
LogFault == << "log1", "log2", "log3", "log4" >>
LogIndex(fault) == CHOOSE k \in DOMAIN LogFault : LogFault[k] = fault

\* the feedback rows of one call, liked first, in argument order
FeedbackWrites(liked, disliked) ==
    [ i \in 1 .. Len(liked) |-> [ id |-> liked[i], kind |-> "liked" ] ]
    \o [ i \in 1 .. Len(disliked) |-> [ id |-> disliked[i], kind |-> "disliked" ] ]

\* the first n writes of ws committed to the session_feedback table
RECURSIVE LogWrites(_, _, _, _)
LogWrites(table, session_id, ws, n) ==
    IF n = 0 \/ ws = << >> THEN table
    ELSE LogWrites(save_session_feedback(table, session_id, Head(ws).id, Head(ws).kind),
                   session_id, Tail(ws), n - 1)

\* feedback that skips the ids a list already holds
FeedbackSession_dedup(session, liked, disliked, cuisine, vibe, t) ==
    [ session EXCEPT
        !.liked_restaurant_ids =
            @ \o SelectSeq(liked, LAMBDA id : id \notin Range(@)),
        !.disliked_restaurant_ids =
            @ \o SelectSeq(disliked, LAMBDA id : id \notin Range(@)),
        !.last_activity = t,
        !.session_preferences =
            [ preferred_cuisines |-> IF Truthy(cuisine) THEN cuisine
                                     ELSE @.preferred_cuisines,
              preferred_vibes |-> IF Truthy(vibe) THEN vibe ELSE @.preferred_vibes ] ]

\* feedback that merges a supplied preference list into the old entry
FeedbackSession_merge(session, liked, disliked, cuisine, vibe, t) ==
    [ session EXCEPT
        !.liked_restaurant_ids = @ \o liked,
        !.disliked_restaurant_ids = @ \o disliked,
        !.last_activity = t,
        !.session_preferences =
            [ preferred_cuisines |->
                  IF ~Truthy(cuisine) THEN @.preferred_cuisines
                  ELSE IF @.preferred_cuisines = None THEN cuisine
                  ELSE Some(@.preferred_cuisines[1] \o cuisine[1]),
              preferred_vibes |->
                  IF ~Truthy(vibe) THEN @.preferred_vibes
                  ELSE IF @.preferred_vibes = None THEN vibe
                  ELSE Some(@.preferred_vibes[1] \o vibe[1]) ] ]

\* feedback that writes a new record for the session instead of updating
\* the one it loaded
FeedbackSession_fresh(session, liked, disliked, cuisine, vibe, t) ==
    [ RecommendationSession(session.session_id, session.user_id,
                            session.location, t) EXCEPT
        !.liked_restaurant_ids = session.liked_restaurant_ids \o liked,
        !.disliked_restaurant_ids = session.disliked_restaurant_ids \o disliked,
        !.session_preferences =
            [ preferred_cuisines |-> IF Truthy(cuisine) THEN cuisine
                                     ELSE session.session_preferences.preferred_cuisines,
              preferred_vibes |-> IF Truthy(vibe) THEN vibe
                                  ELSE session.session_preferences.preferred_vibes ] ]

\* lines 607-616: the session as updated in memory by the feedback
FeedbackSession(session, liked, disliked, cuisine, vibe, t) ==
    [ session EXCEPT
        !.liked_restaurant_ids = @ \o liked,
        !.disliked_restaurant_ids = @ \o disliked,
        !.last_activity = t,
        !.session_preferences =
            [ preferred_cuisines |-> IF Truthy(cuisine) THEN cuisine
                                     ELSE @.preferred_cuisines,
              preferred_vibes |-> IF Truthy(vibe) THEN vibe ELSE @.preferred_vibes ] ]

\* RecommendationEngine.collect_session_feedback
collect_session_feedback(session_id, liked, disliked, cuisine, vibe, fault) ==
    LET loaded == get_recommendation_session(recommendation_sessions, session_id)
        args == [ NoArgs EXCEPT !.liked = liked, !.disliked = disliked,
                                !.cuisine = cuisine, !.vibe = vibe ]
        failed == Failed("feedback", session_id, fault, FALSE, NoLive)
        writes == FeedbackWrites(liked, disliked)
    IN
    /\ Step(fault)
    /\ UNCHANGED << restaurants, user_profiles, google_service, cachePopulated,
                    liveCalls >>
    /\ IF fault = "read" \/ loaded = None
       THEN /\ fault \in { "none", "read" }
            /\ last' = failed
            /\ UNCHANGED << recommendation_sessions, session_feedback,
                            everDisliked >>
       ELSE LET session == FeedbackSession(loaded[1], liked, disliked, cuisine,
                                           vibe, now + 1)
            IN
            /\ Len(session.liked_restaurant_ids) <= MaxListLen
            /\ Len(session.disliked_restaurant_ids) <= MaxListLen
            /\ fault \in { "none", "save" } \cup { LogFault[k] : k \in DOMAIN writes }
            /\ IF fault = "save"
               THEN /\ last' = failed
                    /\ UNCHANGED << recommendation_sessions, session_feedback,
                                    everDisliked >>
               ELSE /\ recommendation_sessions' =
                         save_recommendation_session(recommendation_sessions, session)
                    /\ IF fault = "none"
                       THEN /\ session_feedback' =
                                 LogWrites(session_feedback, session_id, writes,
                                           Len(writes))
                            /\ last' = Call("feedback", session_id, args, TRUE,
                                            FALSE, << >>, NoLive)
                            /\ everDisliked' = [ everDisliked EXCEPT
                                                   ![session_id] = @ \cup Range(disliked) ]
                       ELSE /\ session_feedback' =
                                 LogWrites(session_feedback, session_id, writes,
                                           LogIndex(fault) - 1)
                            /\ last' = Call("feedback", session_id,
                                            [ args EXCEPT !.fault = fault ],
                                            FALSE, FALSE, << >>, NoLive)
                            /\ UNCHANGED everDisliked

CollectFeedback ==
    \E session_id \in SessionIds, a \in FeedbackArgs,
       fault \in { "none", "read", "save" } \cup Range(LogFault) :
        collect_session_feedback(session_id, a.liked, a.disliked, a.cuisine,
                                 a.vibe, fault)

\* what the Supplier does when a round calls it: the places it delivers,
\* and whether one of its calls raises (after the text queries that had
\* delivered those places, on the city path)
Answers ==
    [ raised : { FALSE }, places : LiveResults ]
      \cup { [ raised |-> TRUE, places |-> << PlaceS, PlaceA >> ] }

\* lines 660-664 / 681-685: the ids of the pool that start with "gp_"
LiveRestaurantIds(recommendations) ==
    SelectSeq(MapIds(recommendations), LAMBDA id : StartsWithGp(id))

\* lines 645-689: the pool of the round for the session's location
SessionPool(session, answer) ==
    LET location == session.location
        use_live_search == session.cached_live_restaurants = << >>
    IN  IF location.lat # None /\ location.lng # None
        THEN get_recommendations(restaurants, user_profiles, google_service,
                 session.user_id, location.lat[1], location.lng[1],
                 DefaultRadiusKm, PoolLimit, use_live_search, answer)
        ELSE get_recommendations_by_city(restaurants, user_profiles,
                 google_service, session.user_id, location.city[1], PoolLimit,
                 use_live_search, answer)

\* RecommendationEngine.get_session_recommendations with include_live_search
\* = True.  fault: "read" is the session read raising, "save_profile" the
\* save_user_profile of get_recommendations, "save" the final session save.
get_session_recommendations(session_id, limit, answer, fault) ==
    LET loaded == get_recommendation_session(recommendation_sessions, session_id)
        args == [ NoArgs EXCEPT !.limit = limit ]
        nothing == /\ last' = Failed("round", session_id, fault, FALSE, NoLive)
                   /\ UNCHANGED << user_profiles, recommendation_sessions,
                                   cachePopulated, liveCalls >>
    IN
    /\ Step(fault)
    /\ UNCHANGED << restaurants, session_feedback, google_service, everDisliked >>
    /\ IF fault = "read" \/ loaded = None
       THEN fault \in { "none", "read" } /\ nothing
       ELSE IF /\ loaded[1].location.lat = None \/ loaded[1].location.lng = None
               /\ loaded[1].location.city = None
       THEN fault = "none" /\ nothing
       ELSE
         \E pool \in { SessionPool(loaded[1], answer) } :
         \E filtered \in { _apply_session_learning(
                               pool.recommendations, loaded[1], restaurants) } :
         LET session == loaded[1]
             use_live_search == session.cached_live_restaurants = << >>
             cached == IF use_live_search /\ pool.recommendations # << >>
                       THEN session.cached_live_restaurants
                            \o LiveRestaurantIds(pool.recommendations)
                       ELSE session.cached_live_restaurants
             learning == [ session EXCEPT !.cached_live_restaurants = cached ]
             shown_ids == MapIds(Take(filtered, limit))
             updated == [ learning EXCEPT !.shown_restaurant_ids = @ \o shown_ids,
                                          !.last_activity = now + 1 ]
             live == [ called |-> pool.called,
                       raised |-> pool.called /\ answer.raised,
                       cached |-> cached ]
         IN  IF fault = "save_profile"
             THEN pool.profiles # user_profiles /\ nothing
             ELSE /\ pool.called \/ answer = [ raised |-> FALSE, places |-> << >> ]
                  /\ user_profiles' = pool.profiles
                  /\ liveCalls' = [ liveCalls EXCEPT ![session_id] =
                                      IF pool.called THEN @ + 1 ELSE @ ]
                  /\ IF fault = "save"
                     THEN /\ last' = Failed("round", session_id, fault, FALSE, live)
                          /\ UNCHANGED << recommendation_sessions, cachePopulated >>
                     ELSE /\ recommendation_sessions' =
                               save_recommendation_session(recommendation_sessions,
                                                           updated)
                          /\ last' = Call("round", session_id, args, TRUE, FALSE,
                                          Shown(Take(filtered, limit)), live)
                          /\ cachePopulated' = [ cachePopulated EXCEPT
                                 ![session_id] = @ \/ (pool.called /\ cached # << >>) ]

SessionRecommendations ==
    \E session_id \in SessionIds, limit \in Limits, answer \in Answers,
       fault \in { "none", "read", "save_profile", "save" } :
        get_session_recommendations(session_id, limit, answer, fault)

Next == StartSession \/ CollectFeedback \/ SessionRecommendations

Spec == Init /\ [][Next]_vars

\* ------------------------------------------------------------- claims
Known(table, session_id) == table[session_id] # None

\* the session as the next operation will load it
Loaded(table, session_id) == get_recommendation_session(table, session_id)[1]

IsPrefix(s, t) == Len(s) <= Len(t) /\ SubSeq(t, 1, Len(s)) = s

WriteFaults == { "save", "save_profile" } \cup Range(LogFault)

\* C1: once a round of a session has performed a live search that put a live
\* id into cached_live_restaurant_ids, no later round of that session
\* invokes the Live Candidate Supplier.
C1_CallBounding ==
    [][ \A id \in SessionIds :
            cachePopulated[id] => liveCalls'[id] = liveCalls[id] ]_vars

\* C2: an id returned by one round of a session is never returned by a later
\* round of that session.
C2_NoRepeat ==
    last.op = "round" =>
        Range(MapIds(last.result)) \cap everReturned[last.session_id] = {}

C2_Witness ==
    /\ last.op = "round" /\ last.ok /\ last.result # << >>
    /\ everReturned[last.session_id] # {}

\* C3: the ids a round records into cached_live_restaurant_ids are present
\* when the session is next loaded from the Store.
C3_CachePersisted ==
    last.op = "round" /\ last.ok =>
        IsPrefix(last.live.cached,
                 Loaded(recommendation_sessions,
                        last.session_id).cached_live_restaurants)

\* C4: when a Store write raises during collect_feedback or
\* get_session_recommendations, the operation reports failure and the Store
\* is left exactly as it was before the call.
C4_AtomicFailure ==
    [][ last'.op \in { "feedback", "round" } /\ last'.args.fault \in WriteFaults
        => ~last'.ok /\ last'.result = << >> /\ Store' = Store ]_vars

\* C5: on a session_id that start_session never returned, both operations
\* report failure, leave the Store unchanged and do not call the Supplier.
C5_UnknownSession ==
    [][ /\ last'.op \in { "feedback", "round" }
        /\ ~Known(recommendation_sessions, last'.session_id)
        => /\ ~last'.ok /\ last'.result = << >>
           /\ Store' = Store
           /\ liveCalls' = liveCalls
           /\ ~last'.live.called ]_vars

C5_Witness ==
    /\ last.op = "round" /\ ~last.ok /\ last.args.fault = "none"
    /\ ~Known(recommendation_sessions, last.session_id)
    /\ google_service
    /\ \E id \in SessionIds : Known(recommendation_sessions, id)

\* C6: start_session returns an id no existing session has and persists a
\* record with that id, the given user and location, empty shown, liked,
\* disliked and cached-live lists and empty preferences; every other
\* session record is left unchanged.
C6_StartSession ==
    [][ last'.op = "start" /\ last'.ok =>
          LET id == last'.session_id
              session == Loaded(recommendation_sessions', id)
          IN  /\ ~Known(recommendation_sessions, id)
              /\ Known(recommendation_sessions', id)
              /\ session.session_id = id
              /\ session.user_id = last'.args.user_id
              /\ session.location = last'.args.location
              /\ session.shown_restaurant_ids = << >>
              /\ session.liked_restaurant_ids = << >>
              /\ session.disliked_restaurant_ids = << >>
              /\ session.cached_live_restaurants = << >>
              /\ session.session_preferences.preferred_cuisines = None
              /\ session.session_preferences.preferred_vibes = None
              /\ \A other \in SessionIds \ { id } :
                     recommendation_sessions'[other] = recommendation_sessions[other]
      ]_vars

C6_Witness ==
    /\ last.op = "start" /\ last.ok
    /\ \E other \in SessionIds \ { last.session_id } :
           /\ Known(recommendation_sessions, other)
           /\ Loaded(recommendation_sessions, other).user_id # last.args.user_id

\* C7: a successful collect_feedback makes the persisted liked and disliked
\* lists their previous value followed by the argument, duplicates kept;
\* no operation ever does anything to either list but append to it.
C7_FeedbackAppends ==
    [][ /\ last'.op = "feedback" /\ last'.ok =>
            LET id == last'.session_id
            IN  /\ Loaded(recommendation_sessions', id).liked_restaurant_ids
                     = Loaded(recommendation_sessions, id).liked_restaurant_ids
                       \o last'.args.liked
                /\ Loaded(recommendation_sessions', id).disliked_restaurant_ids
                     = Loaded(recommendation_sessions, id).disliked_restaurant_ids
                       \o last'.args.disliked
        /\ \A id \in SessionIds : Known(recommendation_sessions, id) =>
            /\ Known(recommendation_sessions', id)
            /\ IsPrefix(Loaded(recommendation_sessions, id).liked_restaurant_ids,
                        Loaded(recommendation_sessions', id).liked_restaurant_ids)
            /\ IsPrefix(Loaded(recommendation_sessions, id).disliked_restaurant_ids,
                        Loaded(recommendation_sessions', id).disliked_restaurant_ids)
      ]_vars

\* a successful call appended an id that the list already held
C7_Witness ==
    /\ last.op = "feedback" /\ last.ok
    /\ \E id \in Range(last.args.liked) :
           Count(Loaded(recommendation_sessions, last.session_id).liked_restaurant_ids, id)
             > Count(last.args.liked, id)
    /\ \E id \in Range(last.args.disliked) :
           Count(Loaded(recommendation_sessions, last.session_id).disliked_restaurant_ids, id)
             > Count(last.args.disliked, id)

\* a session_preferences entry read as a list: an absent key is no list
EntryList(entry) == IF entry = None THEN << >> ELSE entry[1]

\* C8 as claimed: a supplied preference list, also an empty one, replaces
\* the entry, and an argument that is not supplied leaves it alone.
C8_SuppliedReplaces ==
    [][ last'.op = "feedback" /\ last'.ok =>
          LET a == last'.args
              before == Loaded(recommendation_sessions,
                               last'.session_id).session_preferences
              after == Loaded(recommendation_sessions',
                              last'.session_id).session_preferences
          IN  /\ a.cuisine # None =>
                     EntryList(after.preferred_cuisines) = a.cuisine[1]
              /\ a.cuisine = None =>
                     after.preferred_cuisines = before.preferred_cuisines
              /\ a.vibe # None => EntryList(after.preferred_vibes) = a.vibe[1]
              /\ a.vibe = None => after.preferred_vibes = before.preferred_vibes
      ]_vars

\* C8 amended: a supplied non-empty preference list replaces the entry; an
\* empty list or no argument leaves the entry as it was; nothing but
\* collect_feedback on the session changes its preferences.
C8_NonEmptyReplaces ==
    [][ /\ last'.op = "feedback" /\ last'.ok =>
            LET a == last'.args
                before == Loaded(recommendation_sessions,
                                 last'.session_id).session_preferences
                after == Loaded(recommendation_sessions',
                                last'.session_id).session_preferences
            IN  /\ after.preferred_cuisines =
                     IF a.cuisine # None /\ a.cuisine[1] # << >>
                     THEN a.cuisine ELSE before.preferred_cuisines
                /\ after.preferred_vibes =
                     IF a.vibe # None /\ a.vibe[1] # << >>
                     THEN a.vibe ELSE before.preferred_vibes
        /\ \A id \in SessionIds :
            /\ Known(recommendation_sessions, id)
            /\ ~(last'.op = "feedback" /\ last'.session_id = id)
            => Loaded(recommendation_sessions', id).session_preferences
                 = Loaded(recommendation_sessions, id).session_preferences
      ]_vars

\* an empty cuisine list was supplied and the entry set by an earlier call
\* is still there, while the vibe list supplied with it was stored
C8_Witness ==
    /\ last.op = "feedback" /\ last.ok
    /\ last.args.cuisine = Some(<< >>)
    /\ Loaded(recommendation_sessions,
              last.session_id).session_preferences.preferred_cuisines
         \in { Some(<< "Thai" >>), Some(<< "Asian" >>) }
    /\ last.args.vibe = Some(<< "Casual" >>)
    /\ Loaded(recommendation_sessions,
              last.session_id).session_preferences.preferred_vibes = last.args.vibe

\* the unrated stored restaurants of the session's location that the session
\* has neither shown nor disliked
EligibleStored(session) ==
    { restaurants[i].id : i \in
        { j \in DOMAIN restaurants :
            /\ restaurants[j].user_rating = None
            /\ IF session.location.lat # None /\ session.location.lng # None
               THEN /\ restaurants[j].lat # None /\ restaurants[j].lng # None
                    /\ Distance(session.location.lat[1], session.location.lng[1],
                                restaurants[j].lat[1], restaurants[j].lng[1])
                         <= DefaultRadiusKm
               ELSE Lower(restaurants[j].city) = Lower(session.location.city[1])
            /\ restaurants[j].id \notin Range(session.shown_restaurant_ids)
            /\ restaurants[j].id \notin Range(session.disliked_restaurant_ids) } }

\* C9: a round whose Supplier raises or is absent does not fail for that
\* reason: it returns as many of the eligible stored candidates of the
\* location as the limit allows, and nothing else, and appends what it
\* returned to shown_restaurant_ids.
C9_SupplierFailure ==
    [][ /\ last'.op = "round" /\ last'.live.raised /\ last'.args.fault = "none"
           => last'.ok
        /\ last'.op = "round" /\ last'.ok
           /\ (~last'.live.called \/ last'.live.raised)
           => LET before == Loaded(recommendation_sessions, last'.session_id)
                  after == Loaded(recommendation_sessions', last'.session_id)
                  ids == MapIds(last'.result)
              IN  /\ Range(ids) \subseteq EligibleStored(before)
                  /\ Len(ids) = Min(last'.args.limit,
                                    Cardinality(EligibleStored(before)))
                  /\ after.shown_restaurant_ids = before.shown_restaurant_ids \o ids
      ]_vars

C9_Witness ==
    /\ last.op = "round" /\ last.ok /\ last.live.called /\ last.live.raised
    /\ Len(last.result) = 2

\* C10: an id passed as disliked to a successful collect_feedback is never
\* returned by a later round of the session.
C10_DislikedNeverReturned ==
    last.op = "round" =>
        Range(MapIds(last.result)) \cap everDisliked[last.session_id] = {}

\* a round with a result, after a dislike of a live id that the Supplier
\* delivered again in this round
C10_Witness ==
    /\ last.op = "round" /\ last.ok /\ last.result # << >>
    /\ "gp_a" \in everDisliked[last.session_id]
    /\ "gp_a" \in Range(last.live.cached)

\* no id occurs twice in the list
NoDuplicates(s) == \A i, j \in DOMAIN s : s[i] = s[j] => i = j

\* C11: a successful round appends exactly the ids it returns, in returned
\* order, to the persisted shown_restaurant_ids; no operation removes or
\* reorders earlier entries; the list never holds an id twice.
C11_ShownAppendOnly ==
    [][ /\ last'.op = "round" /\ last'.ok =>
            Loaded(recommendation_sessions', last'.session_id).shown_restaurant_ids
              = Loaded(recommendation_sessions, last'.session_id).shown_restaurant_ids
                \o MapIds(last'.result)
        /\ \A id \in SessionIds : Known(recommendation_sessions, id) =>
            /\ IsPrefix(Loaded(recommendation_sessions, id).shown_restaurant_ids,
                        Loaded(recommendation_sessions', id).shown_restaurant_ids)
            /\ NoDuplicates(Loaded(recommendation_sessions', id).shown_restaurant_ids)
      ]_vars

\* ------------------------------------- session learning, one function at a time
MaxTags  == 2      \* cuisine tags on a candidate
MaxLiked == 3      \* entries of liked_restaurant_ids

BoundedSeq(S, n) == UNION { [ 1 .. k -> S ] : k \in 0 .. n }

\* a candidate of the pool with the given tags
Candidate(cuisines, vibes) ==
    Restaurant("c", cuisines, vibes, None, None, "Austin", None, None, None,
               None, {}, << >>, None)

Candidates ==
    { Candidate(c, v) : c \in BoundedSeq({ "Thai", "Sushi", "Italian", "Asian" }, MaxTags),
                        v \in { << >>, << "Casual" >>, << "Upscale", "Casual" >> } }

SessionPreferences ==
    [ preferred_cuisines :
          { None, Some(<< >>), Some(<< "Thai" >>), Some(<< "thai" >>),
            Some(<< "Asian" >>), Some(<< "Asian", "Thai" >>),
            Some(<< "Thai", "Asian" >>) },
      preferred_vibes : { None, Some(<< "casual" >>), Some(<< "Upscale" >>) } ]

BoostInputs ==
    { [ fn |-> "preference_boost", done |-> FALSE, restaurant |-> c,
        session_preferences |-> p, liked_restaurant_ids |-> << >>, out |-> 0 ] :
      c \in Candidates, p \in SessionPreferences }

LikeInputs ==
    { [ fn |-> "like_boost", done |-> FALSE, restaurant |-> c,
        session_preferences |-> [ preferred_cuisines |-> None,
                                  preferred_vibes |-> None ],
        liked_restaurant_ids |-> l, out |-> 0 ] :
      c \in Candidates, l \in BoundedSeq({ "r3", "r4", "zz" }, MaxLiked) }

InitLearning ==
    /\ InitStore /\ ~google_service
    /\ eval \in BoostInputs \cup LikeInputs

Quiet ==
    UNCHANGED << restaurants, user_profiles, recommendation_sessions,
                 session_feedback, google_service, now, last, everReturned,
                 everDisliked, cachePopulated, liveCalls, faults >>

\* lines 728-796 on one candidate
ApplyPreferenceBoost ==
    /\ eval.fn = "preference_boost" /\ ~eval.done
    /\ eval' = [ eval EXCEPT !.done = TRUE,
                   !.out = PreferenceBoost(eval.restaurant, eval.session_preferences) ]
    /\ Quiet

\* lines 798-812 on one candidate
ApplyLikeBoost ==
    /\ eval.fn = "like_boost" /\ ~eval.done
    /\ eval' = [ eval EXCEPT !.done = TRUE,
                   !.out = LikeBoost(eval.restaurant, eval.liked_restaurant_ids,
                                     restaurants) ]
    /\ Quiet

NextLearning == ApplyPreferenceBoost \/ ApplyLikeBoost

SpecLearning == InitLearning /\ [][NextLearning]_vars

\* a tag and a preference match directly: one contains the other, case ignored
DirectMatch(cuisine, pref) ==
    StrIn(Lower(pref), Lower(cuisine)) \/ StrIn(Lower(cuisine), Lower(pref))

\* a tag and a preference match through the category table, either way round
CategoryMatch(cuisine, pref) ==
    \E entry \in cuisine_categories :
        \/ Lower(pref) = entry[1] /\ \E c \in entry[2] : StrIn(c, Lower(cuisine))
        \/ Lower(cuisine) = entry[1] /\ \E c \in entry[2] : StrIn(c, Lower(pref))

\* C12: the cuisine boost is 0.5 when any tag of the candidate directly
\* matches any preferred cuisine, whatever the order; otherwise 0.4 when some
\* tag matches through the category table; otherwise 0. A matching vibe tag
\* adds 0.3 independently.
C12_PreferenceBoost ==
    eval.fn = "preference_boost" /\ eval.done =>
        LET tags   == Range(eval.restaurant.cuisine_type)
            prefs  == IF eval.session_preferences.preferred_cuisines = None THEN {}
                      ELSE Range(eval.session_preferences.preferred_cuisines[1])
            vprefs == IF eval.session_preferences.preferred_vibes = None THEN {}
                      ELSE Range(eval.session_preferences.preferred_vibes[1])
            cuisine_boost ==
                IF \E t \in tags, p \in prefs : DirectMatch(t, p) THEN 500
                ELSE IF \E t \in tags, p \in prefs : CategoryMatch(t, p) THEN 400
                ELSE 0
            vibe_boost ==
                IF \E v \in Range(eval.restaurant.vibes), p \in vprefs :
                       StrIn(Lower(p), Lower(v)) \/ StrIn(Lower(v), Lower(p))
                THEN 300 ELSE 0
        IN  eval.out = cuisine_boost + vibe_boost

\* C13: every entry of liked_restaurant_ids that the Store resolves, repeated
\* entries each time, adds 0.2 if the candidate shares a cuisine tag with it
\* and 0.1 if it shares a vibe tag; unresolved entries add nothing.
C13_LikeBoost ==
    eval.fn = "like_boost" /\ eval.done =>
        LET liked == eval.liked_restaurant_ids
            resolved(i) == { j \in DOMAIN restaurants : restaurants[j].id = liked[i] }
            shares(i, field) ==
                \E j \in resolved(i) :
                    Range(eval.restaurant[field]) \cap Range(restaurants[j][field]) # {}
        IN  eval.out = 200 * Cardinality({ i \in DOMAIN liked : shares(i, "cuisine_type") })
                     + 100 * Cardinality({ i \in DOMAIN liked : shares(i, "vibes") })

\* a repeated like, an unresolved like and a like that shares only the vibe
C13_Witness ==
    /\ eval.fn = "like_boost" /\ eval.done
    /\ eval.liked_restaurant_ids = << "r3", "zz", "r3" >>
    /\ eval.restaurant.cuisine_type = << "Sushi", "Thai" >>
    /\ eval.restaurant.vibes = << "Casual" >>
    /\ eval.out = 600

\* the restaurant behind a returned id: the stored one, or the place the
\* Supplier delivered
RestaurantOfId(id) ==
    IF get_restaurant_by_id(restaurants, id) # None
    THEN get_restaurant_by_id(restaurants, id)[1]
    ELSE convert_places_to_restaurants(<< PlaceA >>)[1]

\* the profile a pool is scored with: the stored one, else the one built from
\* the rating history
ProfileUsed(user_id) ==
    IF get_user_profile(user_profiles, user_id) # None
    THEN get_user_profile(user_profiles, user_id)[1]
    ELSE analyze_user_preferences(restaurants, user_id)

\* base score plus preference boost plus like boosts, before clipping
RawScore(id, session) ==
    _calculate_recommendation_score(RestaurantOfId(id), ProfileUsed(session.user_id))
    + PreferenceBoost(RestaurantOfId(id), session.session_preferences)
    + LikeBoost(RestaurantOfId(id), session.liked_restaurant_ids, restaurants)

\* C14: every recommendation a round returns has score
\* min(base score + preference boost + like boosts, 1.0): never above 1.0,
\* and a negative sum is returned as it is.
C14_ClippedAbove ==
    [][ last'.op = "round" /\ last'.ok =>
          \A i \in DOMAIN last'.result :
              LET raw == RawScore(last'.result[i].id,
                                  Loaded(recommendation_sessions, last'.session_id))
              IN  /\ last'.result[i].score <= 1000
                  /\ last'.result[i].score = IF raw > 1000 THEN 1000 ELSE raw
      ]_vars

\* a round returned one recommendation whose sum was clipped and one whose
\* sum is negative
C14_Witness ==
    /\ last.op = "round" /\ last.ok
    /\ \E i \in DOMAIN last.result :
          /\ last.result[i].score = 1000
          /\ RawScore(last.result[i].id,
                      Loaded(recommendation_sessions, last.session_id)) > 1000
    /\ \E j \in DOMAIN last.result : last.result[j].score < 0

\* ----------------------------------------------------------- rating a restaurant
MaxRatings == 2      \* add_restaurant_rating calls in one run

\* ratings in tenths: 0.5, 0.9, 1.0, 3.0, 5.0, 5.1, 5.5
Ratings == { 5, 9, 10, 30, 50, 51, 55 }

RatedIds == { "r1", "r4", "zz" }

\* DatabaseManager.save_restaurant: INSERT OR REPLACE deletes the row with
\* the same id and inserts the new one, which then comes last in table order
save_restaurant(rs, restaurant) ==
    SelectSeq(rs, LAMBDA r : r.id # restaurant.id) \o << restaurant >>

\* an update that keeps the entries of the profile it read and adds to them
\* what the history gives for keys the profile did not have
update_preferences_with_new_rating_merged(rs, profiles, user_id, restaurant, rating) ==
    LET rated == [ restaurant EXCEPT !.user_rating = Some(rating) ]
        saved == save_restaurant(rs, rated)
        fresh == analyze_user_preferences(saved, user_id)
        old == get_user_profile(profiles, user_id)
        merged == IF old = None THEN fresh
                  ELSE [ fresh EXCEPT
                           !.cuisine_preferences = old[1].cuisine_preferences \cup
                               { kv \in @ : kv[1] \notin Keys(old[1].cuisine_preferences) },
                           !.vibe_preferences = old[1].vibe_preferences \cup
                               { kv \in @ : kv[1] \notin Keys(old[1].vibe_preferences) } ]
    IN  [ restaurants |-> saved, profiles |-> save_user_profile(profiles, merged) ]

\* PreferenceAnalyzer.update_preferences_with_new_rating: the restaurant is
\* saved (again) with the rating and the profile rebuilt from the history
update_preferences_with_new_rating(rs, profiles, user_id, restaurant, rating) ==
    LET rated == [ restaurant EXCEPT !.user_rating = Some(rating) ]
        saved == save_restaurant(rs, rated)
    IN  [ restaurants |-> saved,
          profiles |-> save_user_profile(profiles,
                                         analyze_user_preferences(saved, user_id)) ]

\* a range check that leaves the end points out
ValidRating_open(rating) == 10 < rating /\ rating < 50

\* api.py line 206: 1.0 <= rating <= 5.0
ValidRating(rating) == 10 <= rating /\ rating <= 50

Rated(user_id, restaurant_id, rating, fault, success) ==
    [ fn |-> "add_restaurant_rating", done |-> TRUE, user_id |-> user_id,
      restaurant_id |-> restaurant_id, rating |-> rating, fault |-> fault,
      success |-> success, previous |-> get_user_profile(user_profiles, user_id) ]

\* RestaurantRecommendationAPI.add_restaurant_rating with the call it makes
\* to RestaurantRecommendationSystem.add_restaurant_rating; fault = "read"
\* is the Store raising in get_restaurant_by_id
add_restaurant_rating(user_id, restaurant_id, rating, fault) ==
    LET restaurant == get_restaurant_by_id(restaurants, restaurant_id)
        failure == /\ eval' = Rated(user_id, restaurant_id, rating, fault, FALSE)
                   /\ UNCHANGED << restaurants, user_profiles >>
    IN  /\ now < MaxRatings
        /\ now' = now + 1
        /\ IF ~ValidRating(rating) THEN failure
           ELSE IF fault = "read" THEN failure
           ELSE IF restaurant = None THEN failure
           ELSE LET saved == save_restaurant(restaurants,
                                 [ restaurant[1] EXCEPT !.user_rating = Some(rating) ])
                    updated == update_preferences_with_new_rating(
                                   saved, user_profiles, user_id, restaurant[1], rating)
                IN  /\ restaurants' = updated.restaurants
                    /\ user_profiles' = updated.profiles
                    /\ eval' = Rated(user_id, restaurant_id, rating, fault, TRUE)
        /\ UNCHANGED << recommendation_sessions, session_feedback, google_service,
                        last, everReturned, everDisliked, cachePopulated,
                        liveCalls, faults >>

AddRating ==
    \E user_id \in Users, restaurant_id \in RatedIds, rating \in Ratings,
       fault \in { "none", "read" } :
        add_restaurant_rating(user_id, restaurant_id, rating, fault)

InitRating == InitStore /\ ~google_service /\ eval = NoEval

NextRating == AddRating

SpecRating == InitRating /\ [][NextRating]_vars

\* the stored user_rating of a restaurant, None if there is no such row
StoredRating(rs, restaurant_id) ==
    IF get_restaurant_by_id(rs, restaurant_id) = None THEN None
    ELSE get_restaurant_by_id(rs, restaurant_id)[1].user_rating

\* C15: a rating outside [1.0, 5.0] is refused and leaves every stored
\* rating and profile as they were; a rating in the interval, 1.0 and 5.0
\* included, given to an existing restaurant succeeds and is the
\* restaurant's stored user_rating afterwards.
C15_RatingValidation ==
    [][ eval'.fn = "add_restaurant_rating" /\ now' # now =>
          /\ (eval'.rating < 10 \/ eval'.rating > 50) =>
                /\ ~eval'.success
                /\ restaurants' = restaurants
                /\ user_profiles' = user_profiles
          /\ /\ 10 <= eval'.rating /\ eval'.rating <= 50
             /\ eval'.fault = "none"
             /\ get_restaurant_by_id(restaurants, eval'.restaurant_id) # None
             => /\ eval'.success
                /\ StoredRating(restaurants', eval'.restaurant_id) = Some(eval'.rating)
      ]_vars

\* 5.5 was refused after 1.0 had been accepted for the same restaurant,
\* whose stored rating is still 1.0
C15_Witness ==
    /\ eval.fn = "add_restaurant_rating" /\ ~eval.success
    /\ eval.rating = 55 /\ eval.restaurant_id = "r1" /\ eval.fault = "none"
    /\ StoredRating(restaurants, "r1") = Some(10)

\* ------------------------------------ profile building and scoring, one call each
MaxHistory == 7      \* rated restaurants in a rating history

\* the kinds of rated restaurant in a history, and the ratings they get
\* (tenths: 1.0, 3.0, 5.0)
HistoryKinds ==
    { [ cuisine_type |-> << "Thai" >>, vibes |-> << "Casual" >>, price_level |-> Some(2) ],
      [ cuisine_type |-> << "Italian" >>, vibes |-> << >>, price_level |-> None ] }

HistoryRatings == { 10, 30, 50 }

HistoryCells == HistoryKinds \X HistoryRatings

RECURSIVE SumOver(_, _)
SumOver(f, S) ==
    IF S = {} THEN 0
    ELSE LET x == CHOOSE y \in S : TRUE IN f[x] + SumOver(f, S \ { x })

\* a rating history: how many restaurants of each kind got each rating
Histories ==
    { h \in [ HistoryCells -> 0 .. MaxHistory ] : SumOver(h, HistoryCells) <= MaxHistory }

RECURSIVE HistoryRows(_, _)
HistoryRows(h, cells) ==
    IF cells = {} THEN << >>
    ELSE LET c == CHOOSE y \in cells : TRUE
         IN  [ i \in 1 .. h[c] |->
                 Restaurant("h", c[1].cuisine_type, c[1].vibes, None, None, "Austin",
                            None, Some(c[2]), None, c[1].price_level, {}, << >>, None) ]
             \o HistoryRows(h, cells \ { c })

\* a rated restaurant whose menu makes "curry" a second favorite dish
CurryHouse ==
    Restaurant("r5", << "Thai" >>, << "Casual" >>, Some(2), Some(3), "Austin", None,
               Some(45), None, Some(2), {}, << "curry", "curry", "pad thai" >>, None)

\* the restaurants tables a restaurant is scored against: no ratings, the
\* two ratings of the start, and one more
ScoredStores ==
    { SelectSeq(InitialRestaurants, LAMBDA r : r.user_rating = None),
      InitialRestaurants,
      InitialRestaurants \o << CurryHouse >> }

ScoredRestaurants ==
    { Restaurant("c", c, v, None, None, "Austin", None, None, g, p, f, m, rv) :
        c \in { << >>, << "Thai" >>, << "Italian", "Thai" >> },
        v \in { << >>, << "Casual" >> },
        g \in { None, Some(20), Some(45), Some(50) },
        p \in { None, Some(2) },
        f \in { {}, { "website" }, { "website", "phone" } },
        m \in { << >>, << "pad thai" >>, << "Pad Thai", "green curry" >>,
                << "lasagna", "curry", "pad thai" >> },
        rv \in { None, Some("Yes"), Some("No") } }

AnalyzeInputs ==
    { [ fn |-> "analyze", done |-> FALSE, rs |-> HistoryRows(h, HistoryCells),
        restaurant |-> None, out |-> None ] : h \in Histories }

ScoreInputs ==
    { [ fn |-> "score", done |-> FALSE, rs |-> rs, restaurant |-> Some(r),
        out |-> None ] : rs \in ScoredStores, r \in ScoredRestaurants }

InitScoring ==
    /\ InitStore /\ ~google_service
    /\ eval \in AnalyzeInputs \cup ScoreInputs

\* PreferenceAnalyzer.analyze_user_preferences on one rating history
ApplyAnalyze ==
    /\ eval.fn = "analyze" /\ ~eval.done
    /\ eval' = [ eval EXCEPT !.done = TRUE,
                             !.out = analyze_user_preferences(eval.rs, "u1") ]
    /\ Quiet

\* RecommendationEngine._calculate_recommendation_score of one restaurant
\* against the profile built from the table
ApplyScore ==
    /\ eval.fn = "score" /\ ~eval.done
    /\ LET profile == analyze_user_preferences(eval.rs, "u1")
           r == eval.restaurant[1]
       IN  eval' = [ eval EXCEPT !.done = TRUE,
                       !.out = [ profile |-> profile,
                                 score |-> _calculate_recommendation_score(r, profile),
                                 cuisine |-> _calculate_cuisine_score(r, profile),
                                 price |-> _calculate_price_score(r, profile),
                                 vibe |-> _calculate_vibe_score(r, profile),
                                 quality |-> _calculate_quality_score(r),
                                 special |-> _calculate_special_score(r, profile) ] ]
    /\ Quiet

NextScoring == ApplyAnalyze \/ ApplyScore

SpecScoring == InitScoring /\ [][NextScoring]_vars

\* every preference score of a profile
PreferenceScores(profile) ==
    { kv[2] : kv \in profile.cuisine_preferences \cup profile.price_preferences
                     \cup profile.vibe_preferences }

\* C16 as claimed: every cuisine, price and vibe preference score built from
\* ratings in [1.0, 5.0] lies in [-1, 1].
C16_ScoresWithinOne ==
    eval.fn = "analyze" /\ eval.done =>
        \A x \in PreferenceScores(eval.out) : -1000 <= x /\ x <= 1000

\* C16 amended: every cuisine, price and vibe preference score built from
\* ratings in [1.0, 5.0] lies in [-2, 2].
C16_ScoresWithinTwo ==
    eval.fn = "analyze" /\ eval.done =>
        \A x \in PreferenceScores(eval.out) : -2000 <= x /\ x <= 2000

\* three restaurants of one vibe and price rated 5.0 among four rated 1.0:
\* the vibe and the price level score 1.143
C16_Witness ==
    /\ eval.fn = "analyze" /\ eval.done
    /\ Len(eval.rs) = 7
    /\ << "Casual", 1143 >> \in eval.out.vibe_preferences
    /\ << IntKey(2), 1143 >> \in eval.out.price_preferences
    /\ << "Thai", 686 >> \in eval.out.cuisine_preferences

\* C17: with no rated restaurant the profile built has empty cuisine, price
\* and vibe maps and no favorite dishes, and the score of any restaurant
\* against it is exactly 0.15 * quality_score + 0.05 * special_score.
C17_EmptyHistory ==
    /\ eval.fn = "analyze" /\ eval.done /\ eval.rs = << >> =>
           /\ eval.out.cuisine_preferences = {}
           /\ eval.out.price_preferences = {}
           /\ eval.out.vibe_preferences = {}
           /\ eval.out.favorite_dishes = << >>
    /\ eval.fn = "score" /\ eval.done
       /\ (\A i \in DOMAIN eval.rs : eval.rs[i].user_rating = None) =>
           /\ eval.out.profile.cuisine_preferences = {}
           /\ eval.out.profile.price_preferences = {}
           /\ eval.out.profile.vibe_preferences = {}
           /\ eval.out.profile.favorite_dishes = << >>
           /\ eval.out.cuisine = 0 /\ eval.out.price = 0 /\ eval.out.vibe = 0
           /\ 1000 * eval.out.score = 150 * eval.out.quality + 50 * eval.out.special

\* a restaurant with tags, a price, a rating of 4.5, a website and a revisit
\* mark scored against the empty profile: 0.15 * 0.7 + 0.05 * 1.0
C17_Witness ==
    /\ eval.fn = "score" /\ eval.done
    /\ \A i \in DOMAIN eval.rs : eval.rs[i].user_rating = None
    /\ eval.restaurant[1].cuisine_type = << "Italian", "Thai" >>
    /\ eval.restaurant[1].vibes = << "Casual" >>
    /\ eval.restaurant[1].price_level = Some(2)
    /\ eval.out.quality = 700 /\ eval.out.special = 1000
    /\ eval.out.score = 155

\* C18: special_score is min(1.0, r + d), r = 1.0 for an affirmative
\* revisit_preference, d = 0.3 if some favorite dish is contained, case
\* ignored, in some menu item: the dish bonus is added once.
C18_DishBonusOnce ==
    eval.fn = "score" /\ eval.done =>
        LET r == IF eval.restaurant[1].revisit_preference
                      \in { Some("Y"), Some("Yes"), Some("yes") }
                 THEN 1000 ELSE 0
            d == IF \E dish \in Range(eval.out.profile.favorite_dishes),
                      item \in Range(eval.restaurant[1].menu_items) :
                         StrIn(Lower(dish), Lower(item))
                 THEN 300 ELSE 0
        IN  eval.out.special = Min(1000, r + d)

\* --------------------------------------------------- similar restaurants
MaxCandidates == 3      \* restaurants in the table besides the target and the rated two

\* similarities are counted in units of 1/600, so that thirds of the price
\* term and halves and thirds of the Jaccard terms are whole numbers
SimilarityThreshold == 180      \* 0.3

\* RecommendationEngine._calculate_set_similarity, times weight (in 1/600)
_calculate_set_similarity(set1, set2, weight) ==
    IF set1 = {} /\ set2 = {} THEN weight
    ELSE IF set1 = {} \/ set2 = {} THEN 0
    ELSE (weight * Cardinality(set1 \cap set2)) \div Cardinality(set1 \cup set2)

Abs(x) == IF x < 0 THEN -x ELSE x

\* the four terms of _calculate_similarity, already weighted: cuisine 0.4,
\* vibe 0.3, price 0.2, city 0.1
SimilarityTerms(restaurant1, restaurant2) ==
    << _calculate_set_similarity(Range(restaurant1.cuisine_type),
                                 Range(restaurant2.cuisine_type), 240),
       _calculate_set_similarity(Range(restaurant1.vibes), Range(restaurant2.vibes), 180),
       IF /\ restaurant1.price_level # None /\ restaurant1.price_level # Some(0)
          /\ restaurant2.price_level # None /\ restaurant2.price_level # Some(0)
       THEN Max(0, 120 - 40 * Abs(restaurant1.price_level[1] - restaurant2.price_level[1]))
       ELSE 0,
       IF restaurant1.city # "" /\ restaurant2.city # ""
          /\ restaurant1.city = restaurant2.city
       THEN 60 ELSE 0 >>

_calculate_similarity(restaurant1, restaurant2) ==
    LET t == SimilarityTerms(restaurant1, restaurant2) IN t[1] + t[2] + t[3] + t[4]

\* the sums worth exactly 0.3 that binary floating point, adding the terms
\* in the order of the code, rounds to 0.30000000000000004
RoundsAbove ==
    { << 0, 0, 120, 60 >>, << 80, 0, 40, 60 >>, << 80, 60, 40, 0 >>,
      << 120, 0, 0, 60 >> }

\* line 259: similarity > 0.3, on the float the code has computed
AboveThreshold(restaurant1, restaurant2) ==
    \/ _calculate_similarity(restaurant1, restaurant2) > SimilarityThreshold
    \/ /\ _calculate_similarity(restaurant1, restaurant2) = SimilarityThreshold
       /\ SimilarityTerms(restaurant1, restaurant2) \in RoundsAbove

\* similarity * 0.7 + user_score * 0.3, in units of 1/60000
CombinedScore(similarity, user_score) == 70 * similarity + 18 * user_score

\* lines 265-277: with a user and a stored profile the retained candidates
\* are sorted again by the combined score; otherwise they stay as they are
Rerank(rs, profiles, user_id, similar) ==
    IF user_id = None \/ get_user_profile(profiles, user_id[1]) = None THEN similar
    ELSE SortByScoreDesc([ i \in DOMAIN similar |->
             [ similar[i] EXCEPT !.score =
                 CombinedScore(similar[i].score,
                     _calculate_recommendation_score(similar[i].restaurant,
                         get_user_profile(profiles, user_id[1])[1])) ] ])

\* RecommendationEngine.find_similar_restaurants: the ids of the result
find_similar_restaurants(rs, profiles, restaurant_id, limit, user_id) ==
    LET target == get_restaurant_by_id(rs, restaurant_id)
        others == SelectSeq(rs, LAMBDA r : r.id # restaurant_id
                                           /\ AboveThreshold(target[1], r))
        similar == SortByScoreDesc([ i \in DOMAIN others |->
                       [ restaurant |-> others[i], id |-> others[i].id,
                         score |-> _calculate_similarity(target[1], others[i]) ] ])
    IN  IF target = None THEN << >>
        ELSE MapIds(Take(Rerank(rs, profiles, user_id, similar), limit))

\* the restaurants a table is drawn from: unrated rows of two cities with
\* and without tags, price level and city
SimilarPalette ==
    { Restaurant("a", << "Italian" >>, << >>, None, None, "Boston", None, None,
                 Some(20), Some(3), {}, << >>, None),
      Restaurant("b", << "Thai", "Sushi" >>, << "Casual" >>, None, None, "Boston",
                 None, None, Some(50), Some(2), { "website" }, << >>, None),
      Restaurant("d", << "Sushi" >>, << >>, None, None, "Austin", None, None,
                 Some(40), Some(2), {}, << >>, None),
      Restaurant("e", << >>, << "Casual" >>, None, None, "", None, None, None,
                 None, {}, << >>, None),
      Restaurant("f", << "Italian" >>, << >>, None, None, "Boston", None, None,
                 None, None, {}, << >>, None) }

\* the restaurants similar ones are asked for
SimilarTargets ==
    { Restaurant("t", << "Sushi" >>, << >>, None, None, "Austin", None, None,
                 Some(45), Some(2), {}, << >>, None),
      Restaurant("t", << >>, << >>, None, None, "", None, None, None, None, {},
                 << >>, None) }

\* the sequences without repetition of at most n elements of S
RECURSIVE DistinctSeq(_, _)
DistinctSeq(S, n) ==
    IF n = 0 THEN { << >> }
    ELSE DistinctSeq(S, n - 1) \cup
         UNION { { Append(s, x) : x \in S \ Range(s) } :
                   s \in { q \in DistinctSeq(S, n - 1) : Len(q) = n - 1 } }

\* the restaurants tables: the target, some of the palette in any order,
\* and the two rated rows of the start
SimilarStores ==
    { << t >> \o c \o SelectSeq(InitialRestaurants, LAMBDA r : r.user_rating # None) :
        t \in SimilarTargets,
        c \in DistinctSeq(SimilarPalette, MaxCandidates) }

SimilarInputs ==
    { [ fn |-> "find_similar", done |-> FALSE, restaurant_id |-> id,
        limit |-> l, user_id |-> u, out |-> << >> ] :
      id \in { "t", "zz" }, l \in { 1, 2, 5 }, u \in { None, Some("u1") } }

\* the table, and for u1 either no stored profile or the one
\* update_user_profile saved for the table
InitSimilar ==
    /\ restaurants \in SimilarStores
    /\ \/ user_profiles = [ u \in Users |-> None ]
       \/ user_profiles = save_user_profile([ u \in Users |-> None ],
                              analyze_user_preferences(restaurants, "u1"))
    /\ recommendation_sessions = [ id \in SessionIds |-> None ]
    /\ session_feedback = << >>
    /\ google_service = FALSE
    /\ now = 0
    /\ last = Call("init", 0, NoArgs, TRUE, FALSE, << >>, NoLive)
    /\ everReturned = [ id \in SessionIds |-> {} ]
    /\ everDisliked = [ id \in SessionIds |-> {} ]
    /\ cachePopulated = [ id \in SessionIds |-> FALSE ]
    /\ liveCalls = [ id \in SessionIds |-> 0 ]
    /\ faults = 0
    /\ eval \in SimilarInputs

\* one call of RecommendationEngine.find_similar_restaurants
ApplyFindSimilar ==
    /\ eval.fn = "find_similar" /\ ~eval.done
    /\ eval' = [ eval EXCEPT !.done = TRUE,
                   !.out = find_similar_restaurants(restaurants, user_profiles,
                               eval.restaurant_id, eval.limit, eval.user_id) ]
    /\ Quiet

NextSimilar == ApplyFindSimilar

SpecSimilar == InitSimilar /\ [][NextSimilar]_vars

\* the outcome of a finished call whose target is in the table
FoundSimilar == eval.fn = "find_similar" /\ eval.done /\ eval.restaurant_id = "t"

\* the similarity of C19: 0.4 J(cuisines) + 0.3 J(vibes)
\* + 0.2 max(0, 1 - |price difference| / 3) + 0.1 [same city], in 1/600
Jaccard600(A, B, weight) ==
    IF A \cup B = {} THEN weight
    ELSE (weight * Cardinality(A \cap B)) \div Cardinality(A \cup B)

Similarity600(x, y) ==
    Jaccard600(Range(x.cuisine_type), Range(y.cuisine_type), 240)
    + Jaccard600(Range(x.vibes), Range(y.vibes), 180)
    + (IF x.price_level # None /\ y.price_level # None
       THEN Max(0, 120 - 40 * Abs(x.price_level[1] - y.price_level[1])) ELSE 0)
    + (IF x.city # "" /\ x.city = y.city THEN 60 ELSE 0)

SimilarityOfId(id) == Similarity600(RestaurantOfId("t"), RestaurantOfId(id))

\* C19: find_similar_restaurants returns only restaurants other than the
\* target whose similarity to it is strictly greater than 0.3; without a user
\* they come in non-increasing similarity, at most limit of them, and they
\* are the most similar of the restaurants above 0.3.
C19_SimilarAboveThreshold ==
    FoundSimilar =>
        /\ \A i \in DOMAIN eval.out :
              /\ eval.out[i] # "t"
              /\ SimilarityOfId(eval.out[i]) > 180
        /\ eval.user_id = None =>
              /\ Len(eval.out) <= eval.limit
              /\ \A i, j \in DOMAIN eval.out :
                    i < j => SimilarityOfId(eval.out[i]) >= SimilarityOfId(eval.out[j])
              /\ \A r \in Range(restaurants) :
                    (r.id # "t" /\ r.id \notin Range(eval.out)
                     /\ SimilarityOfId(r.id) > 180) =>
                        /\ Len(eval.out) = eval.limit
                        /\ \A i \in DOMAIN eval.out :
                              SimilarityOfId(eval.out[i]) >= SimilarityOfId(r.id)

\* 0.7 similarity + 0.3 personal score of a candidate, the personal score
\* taken against the stored profile of the user or, when none is stored,
\* against the profile built from the ratings (in 1/60000)
CombinedOfId(id) ==
    70 * SimilarityOfId(id)
    + 18 * _calculate_recommendation_score(RestaurantOfId(id), ProfileUsed(eval.user_id[1]))

\* C20: with a user_id, find_similar_restaurants orders the retained
\* candidates by 0.7 similarity + 0.3 personal score before it truncates to
\* limit, also when no profile is stored for the user (it is built on demand).
C20_RerankedForUser ==
    (FoundSimilar /\ eval.user_id # None) =>
        /\ Len(eval.out) <= eval.limit
        /\ \A i, j \in DOMAIN eval.out :
              i < j => CombinedOfId(eval.out[i]) >= CombinedOfId(eval.out[j])
        /\ \A r \in Range(restaurants) :
              (r.id # "t" /\ r.id \notin Range(eval.out)
               /\ SimilarityOfId(r.id) > 180) =>
                  /\ Len(eval.out) = eval.limit
                  /\ \A i \in DOMAIN eval.out :
                        CombinedOfId(eval.out[i]) >= CombinedOfId(r.id)

\* ------------------------------------------------------ the API boundary
\* what a method of RestaurantRecommendationAPI returns
ApiFailure == [ success |-> FALSE, raised |-> FALSE, count |-> 0 ]
ApiSuccess(count) == [ success |-> TRUE, raised |-> FALSE, count |-> count ]

\* api.start_interactive_session around a call of the engine: its except
\* clause turns an exception of the engine into a failure result
api_start_interactive_session(call) ==
    IF call.raised THEN ApiFailure ELSE ApiSuccess(0)

\* api.provide_session_feedback: the bool of the engine decides
api_provide_session_feedback(call) ==
    IF call.raised \/ ~call.ok THEN ApiFailure ELSE ApiSuccess(0)

\* api.get_session_recommendations: an empty list of the engine is answered
\* with success and count 0, whatever made it empty
api_get_session_recommendations(call) ==
    IF call.raised THEN ApiFailure ELSE ApiSuccess(Len(call.result))

\* the result the caller of the API gets for the last call
ApiResult(call) ==
    CASE call.op = "start" -> api_start_interactive_session(call)
      [] call.op = "feedback" -> api_provide_session_feedback(call)
      [] call.op = "round" -> api_get_session_recommendations(call)
      [] OTHER -> ApiSuccess(0)

\* C21: when the Store raises inside start_session, collect_feedback or
\* get_session_recommendations, no exception escapes to the caller and the
\* operation returns a failure result.
C21_FailureResult ==
    last.op \in { "start", "feedback", "round" } /\ last.args.fault # "none" =>
        /\ ~ApiResult(last).raised
        /\ ~ApiResult(last).success

\* ------------------------------------------- the score as a pure function
MaxEvals == 2      \* evaluations of the score of one restaurant and profile

\* restaurants at the ends of the range of the score and between them
PureRestaurants ==
    { Restaurant("c", << "Thai" >>, << "Casual" >>, None, None, "Austin", None, None,
                 x[1], Some(2), x[2], x[3], x[4]) :
        x \in { << Some(10), {}, << >>, None >>,
                << Some(30), { "website" }, << "pad thai" >>, None >>,
                << Some(50), { "website", "phone" }, << "pad thai" >>, Some("Yes") >>,
                << Some(55), { "website", "phone" }, << >>, Some("Yes") >> } }

\* profiles whose values are the ends of [-1, 1], an empty profile, and one
\* with values outside the interval
PureProfile(user_id, value, dishes) ==
    [ user_id |-> user_id, cuisine_preferences |-> { << "Thai", value >> },
      price_preferences |-> { << IntKey(2), value >> },
      vibe_preferences |-> { << "Casual", value >> }, favorite_dishes |-> dishes ]

PureProfiles ==
    { PureProfile("u2", -1000, << >>), PureProfile("u2", 1000, << "pad thai" >>),
      PureProfile("u1", 1143, << >>), UserProfile("u2") }

PureInputs ==
    { [ fn |-> "score_twice", done |-> FALSE, restaurant |-> r, profile |-> p,
        out |-> << >> ] : r \in PureRestaurants, p \in PureProfiles }

InitPure == InitStore /\ ~google_service /\ eval \in PureInputs

\* an evaluation that takes the profile the Store holds for the user
\* instead of the profile it is given
EvaluateScore_stored ==
    /\ eval.fn = "score_twice" /\ Len(eval.out) < MaxEvals
    /\ eval' = [ eval EXCEPT
                   !.out = Append(@, [ at |-> now,
                               score |-> _calculate_recommendation_score(
                                             eval.restaurant,
                                             ProfileUsed(eval.profile.user_id)) ]),
                   !.done = Len(eval.out) + 1 = MaxEvals ]
    /\ Quiet

\* one more evaluation of _calculate_recommendation_score on the same
\* restaurant and profile, at the current state of the Store
EvaluateScore ==
    /\ eval.fn = "score_twice" /\ Len(eval.out) < MaxEvals
    /\ eval' = [ eval EXCEPT
                   !.out = Append(@, [ at |-> now,
                               score |-> _calculate_recommendation_score(
                                             eval.restaurant, eval.profile) ]),
                   !.done = Len(eval.out) + 1 = MaxEvals ]
    /\ Quiet

\* evaluations between which sessions start and rounds run
NextPure == EvaluateScore \/ StartSession \/ SessionRecommendations

SpecPure == InitPure /\ [][NextPure]_vars

Identity(session) ==
    << session.session_id, session.user_id, session.location, session.created_at >>

\* C23: collect_feedback leaves session_id, user_id, location, created_at,
\* shown_restaurant_ids and cached_live_restaurant_ids of its session as
\* they were; get_session_recommendations leaves session_id, user_id,
\* location, created_at, liked_restaurant_ids, disliked_restaurant_ids and
\* session_preferences as they were; no operation deletes a session record
\* or changes the record of a session other than its own.
C23_Frame ==
    [][ \A id \in SessionIds : Known(recommendation_sessions, id) =>
          LET before == Loaded(recommendation_sessions, id)
              after == Loaded(recommendation_sessions', id)
          IN  /\ Known(recommendation_sessions', id)
              /\ Identity(after) = Identity(before)
              /\ last'.op = "feedback" =>
                    /\ after.shown_restaurant_ids = before.shown_restaurant_ids
                    /\ after.cached_live_restaurants = before.cached_live_restaurants
              /\ last'.op = "round" =>
                    /\ after.liked_restaurant_ids = before.liked_restaurant_ids
                    /\ after.disliked_restaurant_ids = before.disliked_restaurant_ids
                    /\ after.session_preferences = before.session_preferences
              /\ last'.session_id # id =>
                    recommendation_sessions'[id] = recommendation_sessions[id]
      ]_vars

\* feedback with liked ids and preferences was saved for a session that had
\* shown restaurants in an earlier round
C23_Witness ==
    /\ last.op = "feedback" /\ last.ok /\ last.args.liked # << >>
    /\ Loaded(recommendation_sessions, last.session_id).shown_restaurant_ids # << >>
    /\ Loaded(recommendation_sessions, last.session_id).created_at < now

\* --------------------------------- two operations on one session at a time
MaxProcs == 2      \* callers that operate on the session at the same time

Procs == 1 .. MaxProcs

\* the session all callers work on, as start_recommendation_session left it
SharedId == 1
SharedSession == RecommendationSession(SharedId, "u1", LocCity, 0)

\* the operations a caller may be running
ConcurrentOps ==
    { [ op |-> "round", limit |-> l, feedback |-> Feedback(<< >>, << >>, None, None) ] :
        l \in Limits }
    \cup { [ op |-> "feedback", limit |-> 0, feedback |-> a ] : a \in FeedbackArgs }

Idle == [ pc |-> "idle", op |-> "none", limit |-> 0,
          feedback |-> Feedback(<< >>, << >>, None, None),
          session |-> SharedSession, result |-> << >>, saved_at |-> 0 ]

InitConcurrent ==
    /\ restaurants = InitialRestaurants
    /\ user_profiles = [ u \in Users |-> None ]
    /\ recommendation_sessions =
         save_recommendation_session([ id \in SessionIds |-> None ], SharedSession)
    /\ session_feedback = << >>
    /\ google_service = FALSE
    /\ now = 0
    /\ last = Call("start", SharedId, [ NoArgs EXCEPT !.user_id = "u1",
                                                     !.location = LocCity ],
                   TRUE, FALSE, << >>, NoLive)
    /\ everReturned = [ id \in SessionIds |-> {} ]
    /\ everDisliked = [ id \in SessionIds |-> {} ]
    /\ cachePopulated = [ id \in SessionIds |-> FALSE ]
    /\ liveCalls = [ id \in SessionIds |-> 0 ]
    /\ faults = 0
    /\ eval = [ fn |-> "concurrent", done |-> FALSE, procs |-> [ p \in Procs |-> Idle ] ]

\* the first statement of both operations: the session is read from the
\* Store into the caller's memory
LoadSession(p) ==
    /\ eval.procs[p].pc = "idle"
    /\ \E o \in ConcurrentOps :
          eval' = [ eval EXCEPT !.procs[p] =
                      [ @ EXCEPT !.pc = "loaded", !.op = o.op, !.limit = o.limit,
                                 !.feedback = o.feedback,
                                 !.session = get_recommendation_session(
                                                 recommendation_sessions, SharedId)[1] ] ]
    /\ Quiet

\* a caller that reads the session again before it updates and saves it
Working_reloaded(p) == get_recommendation_session(recommendation_sessions, SharedId)[1]

\* the session object the rest of the operation works on: the one it loaded
Working(p) == eval.procs[p].session

\* lines 645-700 on the session in memory: the recommendations of the round,
\* the session it saves and the user_profiles table it leaves
RoundOutcome(session, limit, answer, t) ==
    With(SessionPool(session, answer), LAMBDA pool :
      With(_apply_session_learning(pool.recommendations, session, restaurants),
           LAMBDA filtered :
        LET cached == IF session.cached_live_restaurants = << >>
                         /\ pool.recommendations # << >>
                      THEN session.cached_live_restaurants
                           \o LiveRestaurantIds(pool.recommendations)
                      ELSE session.cached_live_restaurants
        IN  [ result |-> MapIds(Take(filtered, limit)),
              recommendations |-> Shown(Take(filtered, limit)),
              profiles |-> pool.profiles,
              live |-> [ called |-> pool.called,
                         raised |-> pool.called /\ answer.raised,
                         cached |-> cached ],
              session |-> [ session EXCEPT
                              !.cached_live_restaurants = cached,
                              !.shown_restaurant_ids = @ \o MapIds(Take(filtered, limit)),
                              !.last_activity = t ] ]))

\* the rest of the operation: the update in memory and the save
SaveSession(p) ==
    LET me == eval.procs[p]
        round == RoundOutcome(Working(p), me.limit,
                              [ raised |-> FALSE, places |-> << >> ], now + 1)
        fed == FeedbackSession(Working(p), me.feedback.liked, me.feedback.disliked,
                               me.feedback.cuisine, me.feedback.vibe, now + 1)
        writes == FeedbackWrites(me.feedback.liked, me.feedback.disliked)
    IN  /\ me.pc = "loaded"
        /\ now' = now + 1
        /\ IF me.op = "round"
           THEN /\ recommendation_sessions' =
                     save_recommendation_session(recommendation_sessions, round.session)
                /\ UNCHANGED session_feedback
                /\ eval' = [ eval EXCEPT
                     !.procs[p] = [ @ EXCEPT !.pc = "done", !.result = round.result,
                                             !.saved_at = now + 1 ],
                     !.done = \A q \in Procs \ { p } : eval.procs[q].pc = "done" ]
           ELSE /\ recommendation_sessions' =
                     save_recommendation_session(recommendation_sessions, fed)
                /\ session_feedback' =
                     LogWrites(session_feedback, SharedId, writes, Len(writes))
                /\ eval' = [ eval EXCEPT
                     !.procs[p] = [ @ EXCEPT !.pc = "done", !.saved_at = now + 1 ],
                     !.done = \A q \in Procs \ { p } : eval.procs[q].pc = "done" ]
        /\ UNCHANGED << restaurants, user_profiles, google_service, last,
                        everReturned, everDisliked, cachePopulated, liveCalls, faults >>

NextConcurrent == \E p \in Procs : LoadSession(p) \/ SaveSession(p)

SpecConcurrent == InitConcurrent /\ [][NextConcurrent]_vars

\* C24: nothing orders two operations on one session: what an operation
\* saves is the record it loaded with its own changes, so a save replaces
\* whatever another operation saved after that load.
C24_LastSaveWins ==
    [][ \A p \in Procs :
          eval.fn = "concurrent" /\ eval.procs[p].pc = "loaded"
          /\ eval'.procs[p].pc = "done" =>
            LET mine == eval.procs[p].session
                after == Loaded(recommendation_sessions', SharedId)
            IN  /\ after.shown_restaurant_ids
                     = mine.shown_restaurant_ids \o eval'.procs[p].result
                /\ after.liked_restaurant_ids
                     = mine.liked_restaurant_ids
                       \o (IF eval.procs[p].op = "feedback"
                           THEN eval.procs[p].feedback.liked ELSE << >>)
                /\ after.disliked_restaurant_ids
                     = mine.disliked_restaurant_ids
                       \o (IF eval.procs[p].op = "feedback"
                           THEN eval.procs[p].feedback.disliked ELSE << >>)
      ]_vars

\* two rounds loaded the session before either saved it: both returned the
\* same restaurant, and the stored record lacks an id the first one appended
C24_Witness ==
    /\ eval.fn = "concurrent" /\ eval.done
    /\ \E p, q \in Procs :
          /\ eval.procs[p].op = "round" /\ eval.procs[q].op = "round"
          /\ eval.procs[p].saved_at < eval.procs[q].saved_at
          /\ Range(eval.procs[p].result) \cap Range(eval.procs[q].result) # {}
          /\ \E id \in Range(eval.procs[p].result) :
                id \notin Range(Loaded(recommendation_sessions,
                                       SharedId).shown_restaurant_ids)

\* ------------------------------------------- a city with more than the pool
\* the restaurants table of a city with one candidate more than the pool of
\* a round holds: PoolLimit unrated restaurants with a google_rating of 5.0
\* and one Thai restaurant without a google_rating, none of them rated
CrowdedCity ==
    [ i \in 1 .. PoolLimit |->
        Restaurant("f" \o ToString(i), << "Italian" >>, << "Upscale" >>, None, None,
                   "Austin", None, None, Some(50), Some(3), {}, << >>, None) ]
    \o << Restaurant("r1", << "Thai" >>, << "Casual" >>, None, None, "Austin",
                     None, None, None, Some(2), {}, << >>, None) >>

\* the sessions of the city a round is asked for: what start_session and
\* earlier feedback and rounds have left in the row (no round yet, one
\* round, or rounds that have shown the whole pool)
CrowdedSessions ==
    { [ SharedSession EXCEPT
          !.session_preferences = [ preferred_cuisines |-> c, preferred_vibes |-> v ],
          !.liked_restaurant_ids = l, !.disliked_restaurant_ids = d,
          !.shown_restaurant_ids = sh, !.last_activity = MaxOps - 1 ] :
        c \in { None, Some(<< "Thai" >>), Some(<< "Italian" >>) },
        v \in { None, Some(<< "Casual" >>) },
        l \in { << >>, << "r1" >> },
        d \in { << >>, << "f3" >> },
        sh \in { << >>, << "f1", "f2" >>, MapIds(SubSeq(CrowdedCity, 1, PoolLimit)) } }

\* no Supplier is configured; the clock has one tick left for the round
InitCrowded ==
    /\ restaurants = CrowdedCity
    /\ user_profiles = [ u \in Users |-> None ]
    /\ \E session \in CrowdedSessions :
          recommendation_sessions =
              save_recommendation_session([ id \in SessionIds |-> None ], session)
    /\ session_feedback = << >>
    /\ google_service = FALSE
    /\ now = MaxOps - 1
    /\ last = Call("init", 0, NoArgs, TRUE, FALSE, << >>, NoLive)
    /\ everReturned = [ id \in SessionIds |-> {} ]
    /\ everDisliked = [ id \in SessionIds |-> {} ]
    /\ cachePopulated = [ id \in SessionIds |-> FALSE ]
    /\ liveCalls = [ id \in SessionIds |-> 0 ]
    /\ faults = 0
    /\ eval = NoEval

\* one round of the session, with limit 0, 1 or 2
CrowdedRound ==
    \E limit \in { 0 } \cup Limits :
        get_session_recommendations(SharedId, limit,
                                    [ raised |-> FALSE, places |-> << >> ], "none")

NextCrowded == CrowdedRound

SpecCrowded == InitCrowded /\ [][NextCrowded]_vars

\* the adjusted score of a stored candidate in a round of the session
AdjustedOfId(id, session) == Min(RawScore(id, session), 1000)

\* C25: the list a round returns is in non-increasing order of adjusted
\* score and has at most limit entries, and no eligible candidate of the
\* location that was left out has a strictly higher adjusted score than a
\* returned one, also when the location has more candidates than the pool.
C25_Ranking ==
    [][ last'.op = "round" /\ last'.ok =>
          LET session == Loaded(recommendation_sessions, last'.session_id)
              result == last'.result
          IN  /\ Len(result) <= last'.args.limit
              /\ \A i, j \in DOMAIN result :
                    i < j => result[i].score >= result[j].score
              /\ \A id \in EligibleStored(session) \ Range(MapIds(result)) :
                    \A i \in DOMAIN result :
                        AdjustedOfId(id, session) <= result[i].score
      ]_vars

\* ------------------------------------------------ ratings between rounds
NextRated == AddRating \/ StartSession \/ SessionRecommendations

SpecRated == Init /\ [][NextRated]_vars

\* C26: a round never returns a restaurant that has a user_rating, on the
\* location path and on the city path; once add_restaurant_rating has
\* succeeded for a restaurant it keeps a rating, so no later round of any
\* session returns it.
C26_RatedNeverReturned ==
    [][ /\ last'.op = "round" /\ last' # last =>
            \A id \in Range(MapIds(last'.result)) :
                StoredRating(restaurants', id) = None
        /\ \A i \in DOMAIN restaurants : restaurants[i].user_rating # None =>
                StoredRating(restaurants', restaurants[i].id) # None
      ]_vars

\* a round returned restaurants after r1, a candidate of the location at
\* the start, had been rated
C26_Witness ==
    /\ last.op = "round" /\ last.ok /\ last.result # << >>
    /\ Loaded(recommendation_sessions, last.session_id).last_activity = now
    /\ eval.fn = "add_restaurant_rating" /\ eval.success /\ eval.restaurant_id = "r1"
    /\ StoredRating(restaurants, "r1") # None

\* C27: when a round of a known session with a valid location and a limit
\* of at least 1 returns an empty list, every unrated candidate of the
\* location is in shown_restaurant_ids or in disliked_restaurant_ids.
C27_EmptyMeansExhausted ==
    [][ /\ last'.op = "round" /\ last'.ok /\ last' # last
        /\ last'.args.limit >= 1 /\ last'.result = << >>
        => EligibleStored(Loaded(recommendation_sessions, last'.session_id)) = {}
      ]_vars

\* ------------------------------------------------- the interactive loop
\* interactive_recommendations: a session is started, then rounds with one
\* limit are asked for until one returns nothing; the Supplier, if there is
\* one, answers every search with the same places
LoopStarts == { << "u1", LocCity >>, << "u2", LocPoint >> }

InitLoop ==
    /\ restaurants = InitialRestaurants
    /\ user_profiles = [ u \in Users |-> None ]
    /\ \E a \in LoopStarts :
          /\ recommendation_sessions =
               save_recommendation_session([ id \in SessionIds |-> None ],
                   RecommendationSession(SharedId, a[1], a[2], 0))
          /\ last = Call("start", SharedId, [ NoArgs EXCEPT !.user_id = a[1],
                                                           !.location = a[2] ],
                         TRUE, FALSE, << >>, NoLive)
    /\ session_feedback = << >>
    /\ google_service \in BOOLEAN
    /\ now = 0
    /\ everReturned = [ id \in SessionIds |-> {} ]
    /\ everDisliked = [ id \in SessionIds |-> {} ]
    /\ cachePopulated = [ id \in SessionIds |-> FALSE ]
    /\ liveCalls = [ id \in SessionIds |-> 0 ]
    /\ faults = 0
    /\ \E limit \in Limits, answer \in Answers :
          /\ google_service \/ answer = [ raised |-> FALSE, places |-> << >> ]
          /\ eval = [ fn |-> "loop", done |-> FALSE, limit |-> limit,
                      answer |-> answer, rounds |-> 0 ]

\* a pass of the loop whose round does not record what it showed
LoopRound_forgetful ==
    /\ eval.fn = "loop" /\ ~eval.done
    /\ \E out \in { RoundOutcome(Loaded(recommendation_sessions, SharedId),
                                 eval.limit, eval.answer, now + 1) } :
          /\ recommendation_sessions' =
               save_recommendation_session(recommendation_sessions,
                   [ out.session EXCEPT !.shown_restaurant_ids =
                       Loaded(recommendation_sessions, SharedId).shown_restaurant_ids ])
          /\ user_profiles' = out.profiles
          /\ last' = Call("round", SharedId, [ NoArgs EXCEPT !.limit = eval.limit ],
                          TRUE, FALSE, out.recommendations, out.live)
          /\ eval' = [ eval EXCEPT !.done = out.result = << >>, !.rounds = @ + 1 ]
    /\ now' = now + 1
    /\ UNCHANGED << restaurants, session_feedback, google_service, everReturned,
                    everDisliked, cachePopulated, liveCalls, faults >>

\* one pass of the loop: the round, and the test that ends the loop
LoopRound ==
    /\ eval.fn = "loop" /\ ~eval.done
    /\ \E out \in { RoundOutcome(Loaded(recommendation_sessions, SharedId),
                                 eval.limit, eval.answer, now + 1) } :
          /\ recommendation_sessions' =
               save_recommendation_session(recommendation_sessions, out.session)
          /\ user_profiles' = out.profiles
          /\ last' = Call("round", SharedId, [ NoArgs EXCEPT !.limit = eval.limit ],
                          TRUE, FALSE, out.recommendations, out.live)
          /\ eval' = [ eval EXCEPT !.done = out.result = << >>, !.rounds = @ + 1 ]
    /\ now' = now + 1
    /\ UNCHANGED << restaurants, session_feedback, google_service, everReturned,
                    everDisliked, cachePopulated, liveCalls, faults >>

\* the feedback the user gives between two rounds
LoopFeedback ==
    /\ eval.fn = "loop" /\ ~eval.done
    /\ \E a \in FeedbackArgs :
          collect_session_feedback(SharedId, a.liked, a.disliked, a.cuisine,
                                   a.vibe, "none")

NextLoop == LoopRound \/ LoopFeedback

\* the loop keeps asking for rounds until it has ended
SpecLoop == InitLoop /\ [][NextLoop]_vars /\ WF_vars(LoopRound)

\* C28: with a fixed Store and Supplier result and a limit of at least 1,
\* the rounds of a session, with any feedback between them, lead to a round
\* that returns an empty list, because every round that returns something
\* adds to shown_restaurant_ids an id that was not there before.
C28_RoundsTerminate ==
    /\ <>(eval.fn = "loop" /\ eval.done /\ last.op = "round" /\ last.result = << >>)
    /\ [][ last'.op = "round" /\ last'.result # << >> /\ eval'.rounds # eval.rounds =>
             \E id \in Range(Loaded(recommendation_sessions',
                                    SharedId).shown_restaurant_ids) :
                 id \notin Range(Loaded(recommendation_sessions,
                                        SharedId).shown_restaurant_ids) ]_vars

\* the loop ended after three rounds that returned something, with
\* feedback given on the way
C28_Witness ==
    /\ eval.fn = "loop" /\ eval.done /\ eval.rounds = 4
    /\ last.op = "round" /\ last.result = << >>
    /\ session_feedback # << >>

\* ------------------------------------------ profiles after a rating
\* C29: after every successful add_restaurant_rating of a user, the profile
\* stored for that user is the one analyze_user_preferences derives from
\* the restaurants that have a user_rating now, the new rating included,
\* whatever the profile stored before held; the other profiles stay.
C29_RebuiltWholesale ==
    [][ eval'.fn = "add_restaurant_rating" /\ now' # now /\ eval'.success =>
          /\ StoredRating(restaurants', eval'.restaurant_id) = Some(eval'.rating)
          /\ get_user_profile(user_profiles', eval'.user_id) =
               Some(ProfileRow(analyze_user_preferences(restaurants', eval'.user_id)))
          /\ \A u \in Users \ { eval'.user_id } : user_profiles'[u] = user_profiles[u]
      ]_vars

\* a second rating of a user succeeded, and the profile stored before it
\* had a cuisine entry and a vibe entry the profile stored now does not have
C29_Witness ==
    /\ eval.fn = "add_restaurant_rating" /\ eval.success
    /\ eval.previous # None
    /\ eval.previous[1].cuisine_preferences
         \ user_profiles[eval.user_id][1].cuisine_preferences # {}
    /\ eval.previous[1].vibe_preferences
         \ user_profiles[eval.user_id][1].vibe_preferences # {}

\* -------------------------- a session where a restaurant was added by name
\* the city of the row that add_restaurant_by_name / confirm_restaurant_addition
\* left in the Store with the id "gp_s"
LocBoston == [ lat |-> None, lng |-> None, city |-> Some("Boston") ]

\* a session of that city or of Austin has been started; the Supplier, if
\* there is one, answers the searches of the run with eval.answer
InitResident ==
    /\ restaurants = InitialRestaurants
    /\ user_profiles = [ u \in Users |-> None ]
    /\ \E location \in { LocCity, LocBoston } :
          /\ recommendation_sessions =
               save_recommendation_session([ id \in SessionIds |-> None ],
                   RecommendationSession(SharedId, "u1", location, 0))
          /\ last = Call("start", SharedId, [ NoArgs EXCEPT !.user_id = "u1",
                                                           !.location = location ],
                         TRUE, FALSE, << >>, NoLive)
    /\ session_feedback = << >>
    /\ google_service \in BOOLEAN
    /\ now = 0
    /\ everReturned = [ id \in SessionIds |-> {} ]
    /\ everDisliked = [ id \in SessionIds |-> {} ]
    /\ cachePopulated = [ id \in SessionIds |-> FALSE ]
    /\ liveCalls = [ id \in SessionIds |-> 0 ]
    /\ faults = 0
    /\ \E answer \in Answers :
          /\ google_service \/ answer = [ raised |-> FALSE, places |-> << >> ]
          /\ eval = [ fn |-> "resident", done |-> FALSE, answer |-> answer ]

ResidentRound ==
    /\ eval.fn = "resident"
    /\ \E limit \in Limits, fault \in { "none", "save" } :
          get_session_recommendations(SharedId, limit, eval.answer, fault)

NextResident == ResidentRound \/ CollectFeedback

SpecResident == InitResident /\ [][NextResident]_vars

\* the ids the session object of a round has in cached_live_restaurant_ids
\* at the end of the round and did not have when it was loaded
NewlyCached(before, round) ==
    Range(round.live.cached)
      \ Range(Loaded(before, round.session_id).cached_live_restaurants)

\* C30: cached_live_restaurant_ids only receives ids of restaurants the
\* Supplier returned in that round's live search: a round that made no
\* Supplier call records nothing, and a restaurant of the Store whose id
\* begins with "gp_" is not recorded unless the Supplier returned it.
C30_OnlyLiveIdsCached ==
    [][ last'.op = "round" /\ now' # now /\ eval.fn = "resident" =>
          /\ ~last'.live.called => NewlyCached(recommendation_sessions, last') = {}
          /\ \A id \in NewlyCached(recommendation_sessions, last') :
                \E i \in DOMAIN eval.answer.places :
                    GpId(eval.answer.places[i].place_id) = id
      ]_vars
====
